---- MODULE Spec2Model ----
(***************************************************************************)
(* A model of networkctl (src/network/networkctl.c): the link enumeration  *)
(* (decode_link, acquire_link_info and the commands calling it), the       *)
(* gateway resolver (ieee_oui, get_gateway_description, dump_gateways),    *)
(* the neighbor record store (next_lldp_neighbor and the two loops that    *)
(* read it), the address label enumeration (dump_address_labels) and the   *)
(* commands of networkctl_main with what they send on the netlink socket   *)
(* (list, status, lldp, label, delete).                                    *)
(* Each part has its own specification over the same variables.            *)
(*                                                                         *)
(* A netlink message is modelled by the outcomes of the accessors the code *)
(* calls on it: every field is a record [r, v], r the accessor's return    *)
(* value (0, or a negative errno) and v the value it stores on success.    *)
(* Memory allocation is assumed to succeed (GREEDY_REALLOC, strdup, new,   *)
(* the cells of a table), and reads of an open file not to fail.           *)
(***************************************************************************)
EXTENDS Integers, Sequences, FiniteSets, TLC

(* ------------------------------------------------------------------ *)
(* Bounds of the model                                                 *)
(* ------------------------------------------------------------------ *)
MaxMsgs == 2        \* longest link dump
MaxPatterns == 2    \* most patterns on the command line
MaxNeigh == 2       \* longest neighbor dump

(* ------------------------------------------------------------------ *)
(* Program constants                                                   *)
(* ------------------------------------------------------------------ *)
RTM_NEWLINK == 16
RTM_DELLINK == 17
RTM_NEWNEIGH == 28
AF_INET == 2
AF_INET6 == 10
ENODATA == 61
EINVAL == 22
ENOMEM == 12
ENOENT == 2
IFNAMSIZ == 16
EBADMSG == 74
LLDP_RAW_MAX == 4096    \* a length prefix must stay below this

Ok(v) == [r |-> 0, v |-> v]
Fail(e, v) == [r |-> 0 - e, v |-> v]

(* ------------------------------------------------------------------ *)
(* Strings: sequences of characters                                    *)
(* ------------------------------------------------------------------ *)
Digits == <<"0", "1", "2", "3", "4", "5", "6", "7", "8", "9">>

RECURSIVE DecimalStr(_)
\* xsprintf(str, "%i", n) for n >= 0
DecimalStr(n) ==
    IF n < 10 THEN <<Digits[n + 1]>>
    ELSE DecimalStr(n \div 10) \o <<Digits[(n % 10) + 1]>>

RECURSIVE fnmatch(_, _)
\* fnmatch(pattern, string, 0) for patterns of literals, '?' and '*'
fnmatch(p, s) ==
    IF p = <<>> THEN s = <<>>
    ELSE IF Head(p) = "*"
         THEN fnmatch(Tail(p), s) \/ (s # <<>> /\ fnmatch(p, Tail(s)))
    ELSE IF Head(p) = "?"
         THEN s # <<>> /\ fnmatch(Tail(p), Tail(s))
    ELSE s # <<>> /\ Head(s) = Head(p) /\ fnmatch(Tail(p), Tail(s))

\* strv_fnmatch(patterns, s, 0): some entry of the list matches s
strv_fnmatch(patterns, s) ==
    \E k \in 1..Len(patterns.strv) : fnmatch(patterns.strv[k], s)

\* strscpy(dest, size, src): at most size - 1 characters are copied
strscpy(size, src) ==
    IF Len(src) <= size - 1 THEN src ELSE SubSeq(src, 1, size - 1)

(* ------------------------------------------------------------------ *)
(* Inputs: the kernel's link dump and the command line                 *)
(* ------------------------------------------------------------------ *)
\* a char** argument: NULL, or a list of strings
NULL == [null |-> TRUE, strv |-> <<>>]
Strv(l) == [null |-> FALSE, strv |-> l]

ETHER_ADDR_NULL == <<0, 0, 0, 0, 0, 0>>
MacA == <<0, 17, 34, 51, 68, 85>>      \* 00:11:22:33:44:55
MacB == <<2, 0, 0, 0, 0, 1>>           \* 02:00:00:00:00:01
MacC == <<8, 0, 39, 1, 2, 3>>          \* 08:00:27:01:02:03
MacX == <<0, 0, 0, 1, 2, 3>>           \* 00:00:00:01:02:03

LinkMsg(type, ifindex, name, iftype, address, mtu, min_mtu, max_mtu, rxq, txq) ==
    [type |-> type, ifindex |-> ifindex, name |-> name, iftype |-> iftype,
     address |-> address, mtu |-> mtu, min_mtu |-> min_mtu, max_mtu |-> max_mtu,
     rxq |-> rxq, txq |-> txq]

NoMac == Fail(ENODATA, ETHER_ADDR_NULL)
NoU32 == Fail(ENODATA, 0)

LinkMessages ==
    { \* loopback: all-zero hardware address, no MTU bounds
      LinkMsg(Ok(RTM_NEWLINK), Ok(1), Ok(<<"l", "o">>), Ok(772),
              Ok(ETHER_ADDR_NULL), Ok(1500), NoU32, NoU32, Ok(1), Ok(1)),
      \* ethernet, everything present
      LinkMsg(Ok(RTM_NEWLINK), Ok(2), Ok(<<"e", "0">>), Ok(1),
              Ok(MacA), Ok(1500), Ok(68), Ok(9000), Ok(4), Ok(2)),
      \* a link named "2" with index 12: MTU 0, bounds present, no queues
      LinkMsg(Ok(RTM_NEWLINK), Ok(12), Ok(<<"2">>), Ok(1),
              NoMac, Ok(0), Ok(68), Ok(9000), Ok(0), NoU32),
      \* a second message for index 2: one MTU bound only
      LinkMsg(Ok(RTM_NEWLINK), Ok(2), Ok(<<"e", "1">>), Ok(1),
              Ok(MacA), Ok(9000), NoU32, Ok(9000), NoU32, Ok(0)),
      \* a message of another type
      LinkMsg(Ok(RTM_DELLINK), Ok(2), Ok(<<"e", "0">>), Ok(1),
              Ok(MacA), Ok(1500), Ok(68), Ok(9000), Ok(4), Ok(2)),
      \* unreadable type tag
      LinkMsg(Fail(EINVAL, 0), Ok(1), Ok(<<"l", "o">>), Ok(772),
              NoMac, NoU32, NoU32, NoU32, NoU32, NoU32),
      \* unreadable index
      LinkMsg(Ok(RTM_NEWLINK), Fail(EINVAL, 0), Ok(<<"e", "0">>), Ok(1),
              Ok(MacA), Ok(1500), Ok(68), Ok(9000), Ok(4), Ok(2)),
      \* unreadable name
      LinkMsg(Ok(RTM_NEWLINK), Ok(2), Fail(ENODATA, <<>>), Ok(1),
              Ok(MacA), Ok(1500), Ok(68), Ok(9000), Ok(4), Ok(2)),
      \* unreadable interface type
      LinkMsg(Ok(RTM_NEWLINK), Ok(1), Ok(<<"e", "0">>), Fail(EINVAL, 0),
              Ok(MacA), Ok(1500), Ok(68), Ok(9000), Ok(4), Ok(2)) }

Patterns == { <<"2">>, <<"e", "*">> }

SeqsUpTo(S, n) == UNION { [1..k -> S] : k \in 0..n }

LinkTables == SeqsUpTo(LinkMessages, MaxMsgs)
ArgLists == SeqsUpTo(Patterns, MaxPatterns)

\* what a freshly allocated, never written LinkInfo slot may hold
UninitValues == {0, 43690}

(* ------------------------------------------------------------------ *)
(* State                                                               *)
(* ------------------------------------------------------------------ *)
VARIABLES
    table,      \* the kernel's link table, as the dump delivers it
    args,       \* argv + 1 of the command
    pc,         \* "off", "idle", "loop" (the for loop of acquire_link_info), "done"
    patterns,   \* acquire_link_info: the patterns parameter
    reply,      \* acquire_link_info: the reply of sd_netlink_call
    i,          \* acquire_link_info: position of the loop in reply
    links,      \* acquire_link_info: links[1..c]
    c,          \* acquire_link_info: number of records decoded
    ret,        \* the caller's links: [set, links]
    rc,         \* the return value of acquire_link_info
    prev,       \* the result of the enumeration before this one: [set, ret, rc]
    neigh,      \* the kernel's neighbor table, as the dump delivers it
    hwdb,       \* the vendor database handle: [null, db]
    gw_pc,      \* "off", "idle", "scan" (the loop of get_gateway_description), "done"
    gw_ifindex, \* get_gateway_description: the ifindex parameter
    gw_family,  \* get_gateway_description: the family parameter
    gateway,    \* get_gateway_description: *gateway, <<first 4 bytes, other 12 bytes>>
    gw_reply,   \* get_gateway_description: the reply of sd_netlink_call
    gw_m,       \* get_gateway_description: position of the loop in the reply
    gateway_description,    \* the caller's description: [set, v]
    gw_rc,      \* the return value of get_gateway_description
    oui_pc,     \* "off", "idle", "done": a call of ieee_oui by itself
    oui_mac,    \* ieee_oui: *mac
    oui_ret,    \* ieee_oui: *ret, [set, v]
    oui_r,      \* the return value of ieee_oui
    oui_queries,    \* the modaliases sd_hwdb_get was asked for
    dg_pc,      \* "off", "idle", "loop", "call", "done": dump_gateways
    dg_ifindex, \* dump_gateways: the ifindex parameter
    routes,     \* the gateways the route enumeration (local_gateways) finds
    local,      \* dump_gateways: local[0..n-1], as a sequence
    dg_i,       \* dump_gateways: i
    dg_table,   \* the rows dump_gateways has added to the table
    dg_log,     \* what dump_gateways has logged: [i, r]
    dg_r,       \* the return value of dump_gateways
    lldp_cmd,   \* "lldp" (link_lldp_status) or "status" (link_status)
    lldp_links, \* the ifindex of links[0..c-1], as acquire_link_info returned them
    lldp_stores,    \* /run/systemd/netif/lldp/<ifindex>: [errno, bytes] per ifindex
    lldp_pc,    \* "off", "links" (the loop over the links), "read" (the loop
                \* over the records of one store), "done"
    lldp_i,     \* the loop over the links: i
    lldp_pos,   \* the read position of the open store f
    lldp_c,     \* link_lldp_status: m; dump_lldp_neighbors: c
    lldp_table, \* link_status_one: the rows dump_lldp_neighbors has added
    lldp_out,   \* what the command has printed: rows [i, ifindex, n]
    lldp_log,   \* the warnings logged: [i, r]
    lldp_results,   \* link_status_one: the results of dump_lldp_neighbors, per link
    lldp_r,     \* the return value of the command
    nl_r,       \* the return value of the last call of next_lldp_neighbor
    nl_n,       \* what that call stored in *ret: [set, raw]
    labels,     \* the kernel's address label table, as the dump delivers it
    al_pc,      \* "off", "idle", "loop", "print", "done": dump_address_labels
    al_reply,   \* dump_address_labels: the reply of sd_netlink_call
    al_m,       \* dump_address_labels: position of the loop in the reply
    al_label,   \* dump_address_labels: what the memory of label holds
    al_table,   \* dump_address_labels: the rows added to the table
    al_log,     \* the errors dump_address_labels has logged
    al_out,     \* the table as printed: [set, rows]
    al_r,       \* the return value of dump_address_labels
    rtnl,       \* the netlink socket: what was sent and received on it, in order
    verb,       \* the command networkctl_main dispatches to
    arg_all,    \* --all
    argv,       \* argv + 1, each argument by what resolving it gives: [r, v]
    cmd_pc,     \* "off", "start", "opened", "addresses", "links", "resolve",
                \* "send", "done": the position in the command
    cmd_c,      \* the command's c: what acquire_link_info returned
    cmd_i,      \* the command's i
    indexes,    \* link_delete: the set indexes
    cmd_j,      \* link_delete: the entries of indexes the iterator j has passed
    cmd_r       \* the return value of the command

linkVars == <<table, args, pc, patterns, reply, i, links, c, ret, rc, prev>>
gwVars == <<neigh, hwdb, gw_pc, gw_ifindex, gw_family, gateway, gw_reply, gw_m,
            gateway_description, gw_rc>>
ouiVars == <<oui_pc, oui_mac, oui_ret, oui_r, oui_queries>>
dgVars == <<dg_pc, dg_ifindex, routes, local, dg_i, dg_table, dg_log, dg_r>>
lldpVars == <<lldp_cmd, lldp_links, lldp_stores, lldp_pc, lldp_i, lldp_pos, lldp_c,
              lldp_table, lldp_out, lldp_log, lldp_results, lldp_r, nl_r, nl_n>>
labelVars == <<labels, al_pc, al_reply, al_m, al_label, al_table, al_log, al_out, al_r>>
cmdVars == <<verb, arg_all, argv, cmd_pc, cmd_c, cmd_i, indexes, cmd_j, cmd_r>>
vars == <<linkVars, gwVars, ouiVars, dgVars, lldpVars, labelVars, cmdVars, rtnl>>

\* what a step of one part of the program leaves alone
otherThanLink == <<gwVars, ouiVars, dgVars, lldpVars, labelVars, cmdVars, rtnl>>
otherThanGw == <<linkVars, ouiVars, dgVars, lldpVars, labelVars, cmdVars>>
otherThanOui == <<linkVars, gwVars, dgVars, lldpVars, labelVars, cmdVars, rtnl>>
otherThanDg == <<linkVars, ouiVars, lldpVars, labelVars, cmdVars>>
otherThanLldp == <<linkVars, gwVars, ouiVars, dgVars, labelVars, cmdVars, rtnl>>
otherThanLabel == <<linkVars, gwVars, ouiVars, dgVars, lldpVars, cmdVars, rtnl>>
otherThanCmd == <<linkVars, gwVars, ouiVars, dgVars, lldpVars, labelVars>>

(* ------------------------------------------------------------------ *)
(* decode_link                                                         *)
(* ------------------------------------------------------------------ *)
\* a LinkInfo slot of newly allocated memory: nothing in it is initialised
UninitSlot(j) ==
    [name |-> <<>>, ifindex |-> j, iftype |-> j,
     mac_address |-> <<j % 256, j % 256, j % 256, j % 256, j % 256, j % 256>>,
     mtu |-> j, min_mtu |-> j, max_mtu |-> j, tx_queues |-> j, rx_queues |-> j,
     has_mac_address |-> j # 0, has_mtu |-> j # 0,
     has_tx_queues |-> j # 0, has_rx_queues |-> j # 0]

\* sd_netlink_message_read_*(m, attr, &dest): dest is written on success only
ReadAttr(attr, dest) == IF attr.r >= 0 THEN attr.v ELSE dest

\* a comparison with its operands swapped
link_info_compare_swapped(a, b) ==
    IF b.ifindex < a.ifindex THEN -1 ELSE IF b.ifindex > a.ifindex THEN 1 ELSE 0

link_info_compare(a, b) ==
    IF a.ifindex < b.ifindex THEN -1 ELSE IF a.ifindex > b.ifindex THEN 1 ELSE 0

\* a filter that forgets the index string
PatternsMatchNameOnly(pats, ifindex, name) ==
    pats.null \/ strv_fnmatch(pats, name)

\* lines 144-151: the record passes the filter
PatternsMatch(pats, ifindex, name) ==
    pats.null \/ strv_fnmatch(pats, DecimalStr(ifindex)) \/ strv_fnmatch(pats, name)

\* a presence test that forgets the all-zero address
HasMacAddressIfRead(attr, mac) == attr.r >= 0

\* lines 160-162
HasMacAddress(attr, mac) == attr.r >= 0 /\ mac # ETHER_ADDR_NULL

\* lines 164-166, 173-179
HasU32(attr, val) == attr.r >= 0 /\ val > 0

\* lines 168-171: the MTU bounds are read only when the MTU is present
ReadMtuBound(has_mtu, attr, dest) == IF has_mtu THEN ReadAttr(attr, dest) ELSE dest

\* lines 153-181: the fields of *info after a successful decode
FillLinkInfo(m, info) ==
    LET mac == ReadAttr(m.address, info.mac_address)
        mtu == ReadAttr(m.mtu, info.mtu)
        has_mtu == HasU32(m.mtu, mtu)
        rxq == ReadAttr(m.rxq, info.rx_queues)
        txq == ReadAttr(m.txq, info.tx_queues)
    IN  [name |-> strscpy(IFNAMSIZ + 1, m.name.v),
         ifindex |-> m.ifindex.v,
         iftype |-> m.iftype.v,
         mac_address |-> mac,
         mtu |-> mtu,
         min_mtu |-> ReadMtuBound(has_mtu, m.min_mtu, info.min_mtu),
         max_mtu |-> ReadMtuBound(has_mtu, m.max_mtu, info.max_mtu),
         tx_queues |-> txq,
         rx_queues |-> rxq,
         has_mac_address |-> HasMacAddress(m.address, mac),
         has_mtu |-> has_mtu,
         has_tx_queues |-> HasU32(m.txq, txq),
         has_rx_queues |-> HasU32(m.rxq, rxq)]

\* a type test that lets every message through
IsAnyType(type) == TRUE

\* line 133: the message is of the expected type
IsExpectedType(type) == type = RTM_NEWLINK

\* a decoder that passes over a message without a name
decode_link_skips_unnamed(m, info, pats) ==
    IF m.type.r < 0 THEN [r |-> m.type.r, info |-> info]
    ELSE IF ~IsExpectedType(m.type.v) THEN [r |-> 0, info |-> info]
    ELSE IF m.ifindex.r < 0 THEN [r |-> m.ifindex.r, info |-> info]
    ELSE IF m.name.r < 0 THEN [r |-> 0, info |-> info]
    ELSE IF ~PatternsMatch(pats, m.ifindex.v, m.name.v) THEN [r |-> 0, info |-> info]
    ELSE IF m.iftype.r < 0 THEN [r |-> m.iftype.r, info |-> info]
    ELSE [r |-> 1, info |-> FillLinkInfo(m, info)]

\* decode_link(m, info, patterns): [r, info], r the return value
decode_link(m, info, pats) ==
    IF m.type.r < 0 THEN [r |-> m.type.r, info |-> info]
    ELSE IF ~IsExpectedType(m.type.v) THEN [r |-> 0, info |-> info]
    ELSE IF m.ifindex.r < 0 THEN [r |-> m.ifindex.r, info |-> info]
    ELSE IF m.name.r < 0 THEN [r |-> m.name.r, info |-> info]
    ELSE IF ~PatternsMatch(pats, m.ifindex.v, m.name.v) THEN [r |-> 0, info |-> info]
    ELSE IF m.iftype.r < 0 THEN [r |-> m.iftype.r, info |-> info]
    ELSE [r |-> 1, info |-> FillLinkInfo(m, info)]

(* ------------------------------------------------------------------ *)
(* acquire_link_info and its callers                                   *)
(* ------------------------------------------------------------------ *)
\* a caller that always passes argv + 1
CallerPatternsAlways(a) == Strv(a)

\* list_links line 235, link_lldp_status line 1219: argc > 1 ? argv + 1 : NULL
CallerPatterns(a) == IF Len(a) > 0 THEN Strv(a) ELSE NULL

\* locals that keep what the call before left in them
StaleLocals == [links |-> links, c |-> c]

\* lines 186-187: the locals of a call start as links = NULL, c = 0
FreshLocals == [links |-> <<>>, c |-> 0]

\* typesafe_qsort(links, c, link_info_compare): qsort is not stable, any
\* arrangement of the c records that the comparison accepts may come out
IsSortedBy(s) ==
    \A k \in 1..(Len(s) - 1) : link_info_compare(s[k], s[k + 1]) <= 0

typesafe_qsort(s) ==
    { t \in { [k \in 1..Len(s) |-> s[p[k]]] : p \in Permutations(1..Len(s)) } :
        IsSortedBy(t) }

\* link_status_one, lines 990-1001: the MTU line of the status output
link_status_one_mtu(info) ==
    [shown |-> info.has_mtu, mtu |-> info.mtu,
     min_mtu |-> info.min_mtu, max_mtu |-> info.max_mtu]

NoPrev == [set |-> FALSE, ret |-> <<>>, rc |-> 0]
NoRet == [set |-> FALSE, links |-> <<>>]

\* the link enumeration alone: the gateway resolver stays idle
Init ==
    /\ rtnl = <<>>
    /\ verb = "list"
    /\ arg_all = FALSE
    /\ argv = <<>>
    /\ cmd_pc = "off"
    /\ cmd_c = 0
    /\ cmd_i = 0
    /\ indexes = {}
    /\ cmd_j = {}
    /\ cmd_r = 0
    /\ table \in LinkTables
    /\ args \in ArgLists
    /\ pc = "idle"
    /\ patterns = NULL
    /\ reply = <<>>
    /\ i = 0
    /\ links = <<>>
    /\ c = 0
    /\ ret = NoRet
    /\ rc = 0
    /\ prev = NoPrev
    /\ neigh = <<>>
    /\ hwdb = [null |-> TRUE, db |-> {}]
    /\ gw_ifindex = 0
    /\ gw_family = 0
    /\ gateway = <<>>
    /\ gw_pc = "off"
    /\ gw_reply = <<>>
    /\ gw_m = 0
    /\ gateway_description = [set |-> FALSE, v |-> ""]
    /\ gw_rc = 0
    /\ oui_pc = "off"
    /\ oui_mac = ETHER_ADDR_NULL
    /\ oui_ret = [set |-> FALSE, v |-> ""]
    /\ oui_r = 0
    /\ oui_queries = <<>>
    /\ dg_pc = "off"
    /\ dg_ifindex = 0
    /\ routes = <<>>
    /\ local = <<>>
    /\ dg_i = 0
    /\ dg_table = <<>>
    /\ dg_log = <<>>
    /\ dg_r = 0
    /\ lldp_cmd = "lldp"
    /\ lldp_links = <<>>
    /\ lldp_stores = <<>>
    /\ lldp_pc = "off"
    /\ lldp_i = 0
    /\ lldp_pos = 0
    /\ lldp_c = 0
    /\ lldp_table = <<>>
    /\ lldp_out = <<>>
    /\ lldp_log = <<>>
    /\ lldp_results = <<>>
    /\ lldp_r = 0
    /\ nl_r = 0
    /\ nl_n = [set |-> FALSE, raw |-> <<>>]
    /\ labels = <<>>
    /\ al_pc = "off"
    /\ al_reply = <<>>
    /\ al_m = 0
    /\ al_label = 0
    /\ al_table = <<>>
    /\ al_log = <<>>
    /\ al_out = [set |-> FALSE, rows |-> <<>>]
    /\ al_r = 0

\* The command runs (once, or once more against the same table): it calls
\* acquire_link_info, lines 184-204, and the dump is answered.
Enumerate ==
    /\ UNCHANGED otherThanLink
    /\ \/ pc = "idle"
       \/ pc = "done" /\ ~prev.set
    /\ prev' = IF pc = "done" THEN [set |-> TRUE, ret |-> ret, rc |-> rc] ELSE prev
    /\ patterns' = CallerPatterns(args)
    /\ reply' = table
    /\ i' = 1
    /\ links' = FreshLocals.links
    /\ c' = FreshLocals.c
    /\ ret' = NoRet
    /\ rc' = 0
    /\ pc' = "loop"
    /\ UNCHANGED <<table, args>>

\* lines 194-204: the request cannot be built or sd_netlink_call fails
EnumerateFails ==
    /\ UNCHANGED otherThanLink
    /\ \/ pc = "idle"
       \/ pc = "done" /\ ~prev.set
    /\ prev' = IF pc = "done" THEN [set |-> TRUE, ret |-> ret, rc |-> rc] ELSE prev
    /\ patterns' = CallerPatterns(args)
    /\ reply' = <<>>
    /\ i' = 0
    /\ links' = FreshLocals.links
    /\ c' = FreshLocals.c
    /\ ret' = NoRet
    /\ rc' = 0 - ENOMEM
    /\ pc' = "done"
    /\ UNCHANGED <<table, args>>

\* lines 206-215: one iteration of the loop
DecodeStep ==
    /\ UNCHANGED otherThanLink
    /\ pc = "loop"
    /\ i <= Len(reply)
    /\ \E j \in UninitValues :
         LET slot == IF Len(links) > c THEN links[c + 1] ELSE UninitSlot(j)
             d == decode_link(reply[i], slot, patterns)
         IN  IF d.r < 0
             THEN /\ rc' = d.r
                  /\ pc' = "done"
                  /\ UNCHANGED <<links, c, i>>
             ELSE /\ links' = SubSeq(links, 1, c) \o <<d.info>>
                  /\ c' = IF d.r > 0 THEN c + 1 ELSE c
                  /\ i' = i + 1
                  /\ UNCHANGED <<rc, pc>>
    /\ UNCHANGED <<table, args, patterns, reply, ret, prev>>

\* lines 217-221: sort, hand the array over, return the count
Finish ==
    /\ UNCHANGED otherThanLink
    /\ pc = "loop"
    /\ i > Len(reply)
    /\ \E sorted \in typesafe_qsort(SubSeq(links, 1, c)) :
         ret' = [set |-> TRUE, links |-> sorted]
    /\ rc' = c
    /\ pc' = "done"
    /\ UNCHANGED <<table, args, patterns, reply, i, links, c, prev>>

Next ==
    \/ Enumerate
    \/ EnumerateFails
    \/ DecodeStep
    \/ Finish

(* ------------------------------------------------------------------ *)
(* Inputs of the gateway resolution                                    *)
(* ------------------------------------------------------------------ *)
HexDigits == <<"0", "1", "2", "3", "4", "5", "6", "7",
               "8", "9", "A", "B", "C", "D", "E", "F">>

\* "%02X" of one byte
HexByte(b) == <<HexDigits[(b \div 16) + 1], HexDigits[(b % 16) + 1]>>

\* xsprintf(modalias, "OUI:" ETHER_ADDR_FORMAT_STR, ETHER_ADDR_FORMAT_VAL(*mac))
OuiModalias(mac) ==
    <<"O", "U", "I", ":">> \o HexByte(mac[1]) \o HexByte(mac[2]) \o HexByte(mac[3])
        \o HexByte(mac[4]) \o HexByte(mac[5]) \o HexByte(mac[6])

\* the vendor database: glob keys with their ID_OUI_FROM_DATABASE value
OuiDb ==
    { [key |-> <<"O", "U", "I", ":", "0", "0", "1", "1", "2", "2", "*">>, value |-> "Acme"],
      [key |-> <<"O", "U", "I", ":", "0", "8", "0", "0", "2", "7", "*">>, value |-> "Cadmus"],
      [key |-> <<"O", "U", "I", ":", "0", "0", "0", "0", "0", "0", "*">>, value |-> "Xerox"] }

Hwdbs == { [null |-> TRUE, db |-> {}], [null |-> FALSE, db |-> OuiDb] }

\* a lookup that answers a miss with an empty description
sd_hwdb_get_miss_is_empty(h, modalias) ==
    IF \E e \in h.db : fnmatch(e.key, modalias)
    THEN Ok((CHOOSE e \in h.db : fnmatch(e.key, modalias)).value)
    ELSE Ok("")

\* sd_hwdb_get(hwdb, modalias, "ID_OUI_FROM_DATABASE", &description)
sd_hwdb_get(h, modalias) ==
    IF \E e \in h.db : fnmatch(e.key, modalias)
    THEN Ok((CHOOSE e \in h.db : fnmatch(e.key, modalias)).value)
    ELSE Fail(ENOENT, "")

NeighMsg(errno, type, family, ifindex, dst, lladdr) ==
    [errno |-> errno, type |-> type, family |-> family, ifindex |-> ifindex,
     dst |-> dst, lladdr |-> lladdr]

\* union in_addr_union: <<first 4 bytes, other 12 bytes>>; the IPv4 member
\* is the first 4 bytes
Tail12(b) == <<0, 0, 0, 0, 0, 0, 0, 0, 0, 0, 0, b>>
AddrT == <<<<192, 0, 2, 1>>, Tail12(0)>>       \* 192.0.2.1, and c000:201::
AddrU == <<<<192, 0, 2, 2>>, Tail12(0)>>       \* 192.0.2.2
AddrT6 == <<<<192, 0, 2, 1>>, Tail12(9)>>      \* c000:201::9
IN_ADDR_NULL == <<<<0, 0, 0, 0>>, Tail12(0)>>

NeighMessages ==
    { NeighMsg(0, Ok(RTM_NEWNEIGH), Ok(AF_INET), Ok(3), Ok(AddrT), Ok(MacA)),
      \* the same address, a vendor the database does not know
      NeighMsg(0, Ok(RTM_NEWNEIGH), Ok(AF_INET), Ok(3), Ok(AddrT), Ok(MacB)),
      \* the same address, no hardware address
      NeighMsg(0, Ok(RTM_NEWNEIGH), Ok(AF_INET), Ok(3), Ok(AddrT), NoMac),
      \* the same address, the 00:00:00 prefix
      NeighMsg(0, Ok(RTM_NEWNEIGH), Ok(AF_INET), Ok(3), Ok(AddrT), Ok(MacX)),
      \* an IPv6 entry whose address bytes are those of 192.0.2.1, zero-padded
      NeighMsg(0, Ok(RTM_NEWNEIGH), Ok(AF_INET6), Ok(3), Ok(AddrT), Ok(MacC)),
      \* an IPv6 entry that differs after the first 4 bytes
      NeighMsg(0, Ok(RTM_NEWNEIGH), Ok(AF_INET6), Ok(3), Ok(AddrT6), Ok(MacA)),
      \* the same address on another interface
      NeighMsg(0, Ok(RTM_NEWNEIGH), Ok(AF_INET), Ok(4), Ok(AddrT), Ok(MacC)),
      \* another address
      NeighMsg(0, Ok(RTM_NEWNEIGH), Ok(AF_INET), Ok(3), Ok(AddrU), Ok(MacC)),
      \* an error message
      NeighMsg(0 - EINVAL, Ok(RTM_NEWNEIGH), Ok(AF_INET), Ok(3), Ok(AddrT), Ok(MacC)),
      \* another type, an unreadable type
      NeighMsg(0, Ok(RTM_NEWNEIGH + 1), Ok(AF_INET), Ok(3), Ok(AddrT), Ok(MacC)),
      NeighMsg(0, Fail(EINVAL, 0), Ok(AF_INET), Ok(3), Ok(AddrT), Ok(MacC)),
      \* unreadable family, interface, destination
      NeighMsg(0, Ok(RTM_NEWNEIGH), Fail(EINVAL, 0), Ok(3), Ok(AddrT), Ok(MacC)),
      NeighMsg(0, Ok(RTM_NEWNEIGH), Ok(AF_INET), Fail(EINVAL, 0), Ok(AddrT), Ok(MacC)),
      NeighMsg(0, Ok(RTM_NEWNEIGH), Ok(AF_INET), Ok(3), Fail(ENODATA, IN_ADDR_NULL), Ok(MacC)) }

NeighTables == SeqsUpTo(NeighMessages, MaxNeigh)

(* ------------------------------------------------------------------ *)
(* ieee_oui and get_gateway_description                                *)
(* ------------------------------------------------------------------ *)
\* a comparison of the first byte alone
IsNullOuiFirstByte(mac) == mac[1] = 0

\* line 334: memcmp(mac, "\0\0\0", 3) == 0
IsNullOui(mac) == mac[1] = 0 /\ mac[2] = 0 /\ mac[3] = 0

\* ieee_oui(hwdb, mac, ret): [r, v], v the string stored in *ret when r = 0
ieee_oui(h, mac) ==
    IF h.null THEN Fail(EINVAL, "")
    ELSE IF IsNullOui(mac) THEN Fail(EINVAL, "")
    ELSE sd_hwdb_get(h, OuiModalias(mac))

\* in_addr_equal(family, a, b)
in_addr_equal(family, a, b) ==
    IF family = AF_INET THEN a[1] = b[1]
    ELSE IF family = AF_INET6 THEN a = b
    ELSE FALSE

\* a family test that lets every entry through
FamilyMatchesAny(fam, family) == TRUE

\* line 411: the entry is of the requested family
FamilyMatches(fam, family) == fam = family

\* an interface test that lets every entry through
InterfaceMatchesAny(ifi, ifindex) == TRUE

\* line 422: the entry is of the requested interface
InterfaceMatches(ifi, ifindex) == ~(ifindex > 0 /\ ifi # ifindex)

\* lines 425-440: NDA_DST is read into gw as the entry's family says
ReadDst(fam, dst) ==
    IF fam = AF_INET THEN [r |-> dst.r, v |-> IF dst.r >= 0 THEN <<dst.v[1], IN_ADDR_NULL[2]>> ELSE IN_ADDR_NULL]
    ELSE IF fam = AF_INET6 THEN [r |-> dst.r, v |-> IF dst.r >= 0 THEN dst.v ELSE IN_ADDR_NULL]
    ELSE Fail(EINVAL, IN_ADDR_NULL)

\* lines 383-453, one iteration of the scan: [found, v], found when the
\* iteration returns 0 with v stored in *gateway_description
ScanEntry(m, h, ifindex, family, gw) ==
    LET skip == [found |-> FALSE, v |-> ""]
    IN  IF m.errno < 0 THEN skip
        ELSE IF m.type.r < 0 THEN skip
        ELSE IF m.type.v # RTM_NEWNEIGH THEN skip
        ELSE IF m.family.r < 0 THEN skip
        ELSE IF ~FamilyMatches(m.family.v, family) THEN skip
        ELSE IF m.ifindex.r < 0 THEN skip
        ELSE IF ~InterfaceMatches(m.ifindex.v, ifindex) THEN skip
        ELSE IF ReadDst(m.family.v, m.dst).r < 0 THEN skip
        ELSE IF ~in_addr_equal(m.family.v, ReadDst(m.family.v, m.dst).v, gw) THEN skip
        ELSE IF m.lladdr.r < 0 THEN skip
        ELSE IF ieee_oui(h, m.lladdr.v).r < 0 THEN skip
        ELSE [found |-> TRUE, v |-> ieee_oui(h, m.lladdr.v).v]

NoDescription == [set |-> FALSE, v |-> ""]

\* what passes on the netlink socket: a request sent, the reply to it received
Request(req, index) == [ev |-> "request", req |-> req, index |-> index, r |-> 0]
Reply(req, index, r) == [ev |-> "reply", req |-> req, index |-> index, r |-> r]

\* sd_netlink_call(rtnl, req, 0, &reply): the request is sent and the call
\* returns when the whole reply is received, or with the error r
Call(req, index, r) == <<Request(req, index), Reply(req, index, r)>>

\* the gateway resolution alone: the link enumeration stays idle
InitGw ==
    /\ rtnl = <<>>
    /\ verb = "list"
    /\ arg_all = FALSE
    /\ argv = <<>>
    /\ cmd_pc = "off"
    /\ cmd_c = 0
    /\ cmd_i = 0
    /\ indexes = {}
    /\ cmd_j = {}
    /\ cmd_r = 0
    /\ neigh \in NeighTables
    /\ hwdb \in Hwdbs
    /\ gw_ifindex \in {0, 3}
    /\ gw_family \in {AF_INET, AF_INET6}
    /\ gateway = AddrT
    /\ gw_pc = "idle"
    /\ gw_reply = <<>>
    /\ gw_m = 0
    /\ gateway_description = NoDescription
    /\ gw_rc = 0
    /\ table = <<>>
    /\ args = <<>>
    /\ pc = "off"
    /\ patterns = NULL
    /\ reply = <<>>
    /\ i = 0
    /\ links = <<>>
    /\ c = 0
    /\ ret = NoRet
    /\ rc = 0
    /\ prev = NoPrev
    /\ oui_pc = "off"
    /\ oui_mac = ETHER_ADDR_NULL
    /\ oui_ret = [set |-> FALSE, v |-> ""]
    /\ oui_r = 0
    /\ oui_queries = <<>>
    /\ dg_pc = "off"
    /\ dg_ifindex = 0
    /\ routes = <<>>
    /\ local = <<>>
    /\ dg_i = 0
    /\ dg_table = <<>>
    /\ dg_log = <<>>
    /\ dg_r = 0
    /\ lldp_cmd = "lldp"
    /\ lldp_links = <<>>
    /\ lldp_stores = <<>>
    /\ lldp_pc = "off"
    /\ lldp_i = 0
    /\ lldp_pos = 0
    /\ lldp_c = 0
    /\ lldp_table = <<>>
    /\ lldp_out = <<>>
    /\ lldp_log = <<>>
    /\ lldp_results = <<>>
    /\ lldp_r = 0
    /\ nl_r = 0
    /\ nl_n = [set |-> FALSE, raw |-> <<>>]
    /\ labels = <<>>
    /\ al_pc = "off"
    /\ al_reply = <<>>
    /\ al_m = 0
    /\ al_label = 0
    /\ al_table = <<>>
    /\ al_log = <<>>
    /\ al_out = [set |-> FALSE, rows |-> <<>>]
    /\ al_r = 0

\* a resolver that sends the request and goes on without the reply
ResolveNoWait ==
    /\ UNCHANGED otherThanGw
    /\ rtnl' = Append(rtnl, Request("neighbor", gw_ifindex))
    /\ gw_pc = "idle"
    /\ gw_reply' = <<>>
    /\ gw_m' = 1
    /\ gw_pc' = "scan"
    /\ UNCHANGED <<neigh, hwdb, gw_ifindex, gw_family, gateway, gateway_description, gw_rc>>

\* lines 353-380: the neighbor dump is requested and answered
Resolve ==
    /\ UNCHANGED otherThanGw
    /\ rtnl' = rtnl \o Call("neighbor", gw_ifindex, 0)
    /\ gw_pc = "idle"
    /\ gw_reply' = neigh
    /\ gw_m' = 1
    /\ gw_pc' = "scan"
    /\ UNCHANGED <<neigh, hwdb, gw_ifindex, gw_family, gateway, gateway_description, gw_rc>>

\* lines 378-380: sd_netlink_call fails
ResolveFails ==
    /\ UNCHANGED otherThanGw
    /\ rtnl' = rtnl \o Call("neighbor", gw_ifindex, 0 - ENOMEM)
    /\ gw_pc = "idle"
    /\ gw_rc' = 0 - ENOMEM
    /\ gw_pc' = "done"
    /\ UNCHANGED <<neigh, hwdb, gw_ifindex, gw_family, gateway, gateway_description,
                   gw_reply, gw_m>>

\* a scan that takes the description of a match and goes on scanning
ScanStepGoesOn ==
    /\ UNCHANGED otherThanGw
    /\ UNCHANGED rtnl
    /\ gw_pc = "scan"
    /\ gw_m <= Len(gw_reply)
    /\ LET e == ScanEntry(gw_reply[gw_m], hwdb, gw_ifindex, gw_family, gateway)
       IN  IF e.found
           THEN /\ gateway_description' = [set |-> TRUE, v |-> e.v]
                /\ gw_rc' = 0
                /\ gw_m' = gw_m + 1
                /\ UNCHANGED gw_pc
           ELSE /\ gw_m' = gw_m + 1
                /\ UNCHANGED <<gateway_description, gw_rc, gw_pc>>
    /\ UNCHANGED <<neigh, hwdb, gw_ifindex, gw_family, gateway, gw_reply>>

\* a scan that returns the error of the first entry it cannot decode
ScanStepAborts ==
    /\ UNCHANGED otherThanGw
    /\ UNCHANGED rtnl
    /\ gw_pc = "scan"
    /\ gw_m <= Len(gw_reply)
    /\ LET m == gw_reply[gw_m]
           e == ScanEntry(m, hwdb, gw_ifindex, gw_family, gateway)
           failed == {m.errno, m.type.r, m.family.r, m.ifindex.r, m.dst.r, m.lladdr.r}
                        \cap {0 - EINVAL, 0 - ENODATA}
       IN  IF e.found
           THEN /\ gateway_description' = [set |-> TRUE, v |-> e.v]
                /\ gw_rc' = 0
                /\ gw_pc' = "done"
                /\ UNCHANGED gw_m
           ELSE IF failed # {}
           THEN /\ gw_rc' = CHOOSE r \in failed : TRUE
                /\ gw_pc' = "done"
                /\ UNCHANGED <<gateway_description, gw_m>>
           ELSE /\ gw_m' = gw_m + 1
                /\ UNCHANGED <<gateway_description, gw_rc, gw_pc>>
    /\ UNCHANGED <<neigh, hwdb, gw_ifindex, gw_family, gateway, gw_reply>>

\* lines 382-454: one iteration of the scan
ScanStep ==
    /\ UNCHANGED otherThanGw
    /\ UNCHANGED rtnl
    /\ gw_pc = "scan"
    /\ gw_m <= Len(gw_reply)
    /\ LET e == ScanEntry(gw_reply[gw_m], hwdb, gw_ifindex, gw_family, gateway)
       IN  IF e.found
           THEN /\ gateway_description' = [set |-> TRUE, v |-> e.v]
                /\ gw_rc' = 0
                /\ gw_pc' = "done"
                /\ UNCHANGED gw_m
           ELSE /\ gw_m' = gw_m + 1
                /\ UNCHANGED <<gateway_description, gw_rc, gw_pc>>
    /\ UNCHANGED <<neigh, hwdb, gw_ifindex, gw_family, gateway, gw_reply>>

\* line 456: the reply is exhausted
ScanEnd ==
    /\ UNCHANGED otherThanGw
    /\ UNCHANGED rtnl
    /\ gw_pc = "scan"
    /\ gw_m > Len(gw_reply)
    /\ gw_rc' = 0 - ENODATA
    /\ gw_pc' = "done"
    /\ UNCHANGED <<neigh, hwdb, gw_ifindex, gw_family, gateway, gateway_description,
                   gw_reply, gw_m>>

NextGw ==
    \/ Resolve
    \/ ResolveFails
    \/ ScanStep
    \/ ScanEnd

(* ------------------------------------------------------------------ *)
(* ieee_oui by itself                                                  *)
(* ------------------------------------------------------------------ *)
\* the first three bytes of the hardware addresses looked up
OuiBytes == {0, 8, 17, 34, 39}

OuiMacs == { <<a, b, d, 1, 2, 3>> : a \in OuiBytes, b \in OuiBytes, d \in OuiBytes }

\* no database, a database without entries, the database of the examples
OuiHwdbs == Hwdbs \cup { [null |-> FALSE, db |-> {}] }

\* one call of ieee_oui; the callers pass a description that is NULL
\* (lines 974-976, 475 and 489)
InitOui ==
    /\ rtnl = <<>>
    /\ verb = "list"
    /\ arg_all = FALSE
    /\ argv = <<>>
    /\ cmd_pc = "off"
    /\ cmd_c = 0
    /\ cmd_i = 0
    /\ indexes = {}
    /\ cmd_j = {}
    /\ cmd_r = 0
    /\ oui_pc = "idle"
    /\ oui_mac \in OuiMacs
    /\ oui_ret = NoDescription
    /\ oui_r = 0
    /\ oui_queries = <<>>
    /\ hwdb \in OuiHwdbs
    /\ neigh = <<>>
    /\ gw_ifindex = 0
    /\ gw_family = 0
    /\ gateway = <<>>
    /\ gw_pc = "off"
    /\ gw_reply = <<>>
    /\ gw_m = 0
    /\ gateway_description = NoDescription
    /\ gw_rc = 0
    /\ table = <<>>
    /\ args = <<>>
    /\ pc = "off"
    /\ patterns = NULL
    /\ reply = <<>>
    /\ i = 0
    /\ links = <<>>
    /\ c = 0
    /\ ret = NoRet
    /\ rc = 0
    /\ prev = NoPrev
    /\ dg_pc = "off"
    /\ dg_ifindex = 0
    /\ routes = <<>>
    /\ local = <<>>
    /\ dg_i = 0
    /\ dg_table = <<>>
    /\ dg_log = <<>>
    /\ dg_r = 0
    /\ lldp_cmd = "lldp"
    /\ lldp_links = <<>>
    /\ lldp_stores = <<>>
    /\ lldp_pc = "off"
    /\ lldp_i = 0
    /\ lldp_pos = 0
    /\ lldp_c = 0
    /\ lldp_table = <<>>
    /\ lldp_out = <<>>
    /\ lldp_log = <<>>
    /\ lldp_results = <<>>
    /\ lldp_r = 0
    /\ nl_r = 0
    /\ nl_n = [set |-> FALSE, raw |-> <<>>]
    /\ labels = <<>>
    /\ al_pc = "off"
    /\ al_reply = <<>>
    /\ al_m = 0
    /\ al_label = 0
    /\ al_table = <<>>
    /\ al_log = <<>>
    /\ al_out = [set |-> FALSE, rows |-> <<>>]
    /\ al_r = 0

\* lines 327-335: no database, or the 00:00:00 prefix; nothing is looked up
OuiReject ==
    /\ UNCHANGED otherThanOui
    /\ oui_pc = "idle"
    /\ hwdb.null \/ IsNullOui(oui_mac)
    /\ oui_r' = ieee_oui(hwdb, oui_mac).r
    /\ oui_pc' = "done"
    /\ UNCHANGED <<oui_mac, oui_ret, oui_queries>>

\* lines 337-350: the modalias is looked up, *ret is set when it is found
OuiGet ==
    /\ UNCHANGED otherThanOui
    /\ oui_pc = "idle"
    /\ ~(hwdb.null \/ IsNullOui(oui_mac))
    /\ oui_queries' = Append(oui_queries, OuiModalias(oui_mac))
    /\ oui_r' = ieee_oui(hwdb, oui_mac).r
    /\ oui_ret' = IF ieee_oui(hwdb, oui_mac).r >= 0
                  THEN [set |-> TRUE, v |-> ieee_oui(hwdb, oui_mac).v]
                  ELSE oui_ret
    /\ oui_pc' = "done"
    /\ UNCHANGED oui_mac

NextOui ==
    \/ OuiReject
    \/ OuiGet

(* ------------------------------------------------------------------ *)
(* dump_gateways                                                       *)
(* ------------------------------------------------------------------ *)
MaxGateways == 2    \* most gateways the route enumeration returns

\* struct local_address, as local_gateways fills it
LocalAddress(family, address, ifindex) ==
    [family |-> family, address |-> address, ifindex |-> ifindex]

Gateways ==
    { LocalAddress(AF_INET, AddrT, 3),
      LocalAddress(AF_INET, AddrU, 3),
      LocalAddress(AF_INET6, AddrT6, 4) }

\* local_gateways(rtnl, ifindex, AF_UNSPEC, &local): with ifindex > 0 only
\* the gateways of that interface are returned
GatewayLists(ifindex) ==
    { l \in SeqsUpTo(Gateways, MaxGateways) :
        \A k \in 1..Len(l) : ifindex > 0 => l[k].ifindex = ifindex }

\* the neighbor entries the gateways are resolved against
DumpNeighMessages ==
    { NeighMsg(0, Ok(RTM_NEWNEIGH), Ok(AF_INET), Ok(3), Ok(AddrT), Ok(MacA)),
      NeighMsg(0, Ok(RTM_NEWNEIGH), Ok(AF_INET), Ok(3), Ok(AddrT), Ok(MacB)),
      NeighMsg(0, Ok(RTM_NEWNEIGH), Ok(AF_INET), Ok(3), Ok(AddrU), Ok(MacC)),
      NeighMsg(0, Ok(RTM_NEWNEIGH), Ok(AF_INET6), Ok(4), Ok(AddrT6), Ok(MacA)) }

\* in_addr_to_string(family, &address, &ret): the text of the address; of
\* an IPv4 address only the first 4 bytes of the union are printed
in_addr_to_string(family, address) ==
    IF family = AF_INET THEN <<family, address[1]>> ELSE <<family, address>>

\* lines 493-509: the cell that shows the gateway
GatewayCell(ifindex, i_, l, description) ==
    [label |-> IF i_ = 0 THEN "Gateway:" ELSE "",
     gateway |-> in_addr_to_string(l.family, l.address),
     description |-> description,
     on |-> IF ifindex <= 0 THEN l.ifindex ELSE 0]

\* dump_gateways is called (by link_status_one with the link's index, by
\* system_status with 0)
InitDump ==
    /\ rtnl = <<>>
    /\ verb = "list"
    /\ arg_all = FALSE
    /\ argv = <<>>
    /\ cmd_pc = "off"
    /\ cmd_c = 0
    /\ cmd_i = 0
    /\ indexes = {}
    /\ cmd_j = {}
    /\ cmd_r = 0
    /\ dg_pc = "idle"
    /\ dg_ifindex \in {0, 3}
    /\ routes \in GatewayLists(dg_ifindex)
    /\ local = <<>>
    /\ dg_i = 0
    /\ dg_table = <<>>
    /\ dg_log = <<>>
    /\ dg_r = 0
    /\ neigh \in SeqsUpTo(DumpNeighMessages, MaxNeigh)
    /\ hwdb \in Hwdbs
    /\ gw_ifindex = 0
    /\ gw_family = 0
    /\ gateway = <<>>
    /\ gw_pc = "off"
    /\ gw_reply = <<>>
    /\ gw_m = 0
    /\ gateway_description = NoDescription
    /\ gw_rc = 0
    /\ table = <<>>
    /\ args = <<>>
    /\ pc = "off"
    /\ patterns = NULL
    /\ reply = <<>>
    /\ i = 0
    /\ links = <<>>
    /\ c = 0
    /\ ret = NoRet
    /\ rc = 0
    /\ prev = NoPrev
    /\ oui_pc = "off"
    /\ oui_mac = ETHER_ADDR_NULL
    /\ oui_ret = [set |-> FALSE, v |-> ""]
    /\ oui_r = 0
    /\ oui_queries = <<>>
    /\ lldp_cmd = "lldp"
    /\ lldp_links = <<>>
    /\ lldp_stores = <<>>
    /\ lldp_pc = "off"
    /\ lldp_i = 0
    /\ lldp_pos = 0
    /\ lldp_c = 0
    /\ lldp_table = <<>>
    /\ lldp_out = <<>>
    /\ lldp_log = <<>>
    /\ lldp_results = <<>>
    /\ lldp_r = 0
    /\ nl_r = 0
    /\ nl_n = [set |-> FALSE, raw |-> <<>>]
    /\ labels = <<>>
    /\ al_pc = "off"
    /\ al_reply = <<>>
    /\ al_m = 0
    /\ al_label = 0
    /\ al_table = <<>>
    /\ al_log = <<>>
    /\ al_out = [set |-> FALSE, rows |-> <<>>]
    /\ al_r = 0

\* lines 470-472: the route enumeration answers
DumpStart ==
    /\ UNCHANGED otherThanDg
    /\ rtnl' = rtnl \o Call("route", dg_ifindex, 0)
    /\ dg_pc = "idle"
    /\ local' = routes
    /\ dg_i' = 0
    /\ dg_pc' = "loop"
    /\ UNCHANGED <<dg_ifindex, routes, dg_table, dg_log, dg_r>>
    /\ UNCHANGED gwVars

\* lines 470-472: the route enumeration fails
DumpStartFails ==
    /\ UNCHANGED otherThanDg
    /\ rtnl' = rtnl \o Call("route", dg_ifindex, 0 - ENOMEM)
    /\ dg_pc = "idle"
    /\ dg_r' = 0 - ENOMEM
    /\ dg_pc' = "done"
    /\ UNCHANGED <<dg_ifindex, routes, local, dg_i, dg_table, dg_log>>
    /\ UNCHANGED gwVars

\* lines 474-489: the next gateway; its description starts as NULL and
\* get_gateway_description is called for it
DumpCall ==
    /\ UNCHANGED otherThanDg
    /\ UNCHANGED rtnl
    /\ dg_pc = "loop"
    /\ dg_i < Len(local)
    /\ gw_ifindex' = local[dg_i + 1].ifindex
    /\ gw_family' = local[dg_i + 1].family
    /\ gateway' = local[dg_i + 1].address
    /\ gateway_description' = NoDescription
    /\ gw_reply' = <<>>
    /\ gw_m' = 0
    /\ gw_rc' = 0
    /\ gw_pc' = "idle"
    /\ dg_pc' = "call"
    /\ UNCHANGED <<neigh, hwdb>>
    /\ UNCHANGED <<dg_ifindex, routes, local, dg_i, dg_table, dg_log, dg_r>>

\* a caller that gives up when the resolution fails
DumpRowReturnsError ==
    /\ UNCHANGED otherThanDg
    /\ UNCHANGED rtnl
    /\ dg_pc = "call"
    /\ gw_pc = "done"
    /\ IF gw_rc < 0
       THEN /\ dg_r' = gw_rc
            /\ dg_pc' = "done"
            /\ UNCHANGED <<dg_table, dg_i, dg_log>>
       ELSE /\ dg_table' = Append(dg_table,
                    GatewayCell(dg_ifindex, dg_i, local[dg_i + 1], gateway_description))
            /\ dg_i' = dg_i + 1
            /\ dg_pc' = "loop"
            /\ UNCHANGED <<dg_log, dg_r>>
    /\ gw_pc' = "off"
    /\ UNCHANGED <<neigh, hwdb, gw_ifindex, gw_family, gateway, gw_reply, gw_m,
                   gateway_description, gw_rc>>
    /\ UNCHANGED <<dg_ifindex, routes, local>>

\* lines 490-511: get_gateway_description has returned; a failure is
\* logged, the row is added with or without the description
DumpRow ==
    /\ UNCHANGED otherThanDg
    /\ UNCHANGED rtnl
    /\ dg_pc = "call"
    /\ gw_pc = "done"
    /\ dg_log' = IF gw_rc < 0 THEN Append(dg_log, [i |-> dg_i, r |-> gw_rc]) ELSE dg_log
    /\ dg_table' = Append(dg_table,
            GatewayCell(dg_ifindex, dg_i, local[dg_i + 1], gateway_description))
    /\ dg_i' = dg_i + 1
    /\ dg_pc' = "loop"
    /\ gw_pc' = "off"
    /\ UNCHANGED <<neigh, hwdb, gw_ifindex, gw_family, gateway, gw_reply, gw_m,
                   gateway_description, gw_rc>>
    /\ UNCHANGED <<dg_ifindex, routes, local, dg_r>>

\* line 514: every gateway has its row
DumpEnd ==
    /\ UNCHANGED otherThanDg
    /\ UNCHANGED rtnl
    /\ dg_pc = "loop"
    /\ dg_i >= Len(local)
    /\ dg_r' = 0
    /\ dg_pc' = "done"
    /\ UNCHANGED <<dg_ifindex, routes, local, dg_i, dg_table, dg_log>>
    /\ UNCHANGED gwVars

NextDump ==
    \/ DumpStart
    \/ DumpStartFails
    \/ DumpCall
    \/ Resolve
    \/ ResolveFails
    \/ ScanStep
    \/ ScanEnd
    \/ DumpRow
    \/ DumpEnd

(* ------------------------------------------------------------------ *)
(* The neighbor record store: next_lldp_neighbor                       *)
(* ------------------------------------------------------------------ *)
MaxFrames == 2      \* most chunks a store file is made of
MaxLinks == 2       \* most links the lldp commands go through

Min(a, b) == IF a < b THEN a ELSE b

\* fread(ptr, 1, n, f) on a file of bytes B read up to pos: l bytes are
\* read, the end-of-file indicator is set when fewer than n are left
fread(B, pos, n) ==
    [l |-> Min(n, Len(B) - pos), pos |-> pos + Min(n, Len(B) - pos),
     eof |-> Len(B) - pos < n]

\* a 64-bit value, big end first
be64toh(u) ==
    <<u[8] + 256 * u[7], u[6] + 256 * u[5], u[4] + 256 * u[3], u[2] + 256 * u[1]>>

\* le64toh(u): the 64-bit value of 8 bytes, as four 16-bit limbs, low first
le64toh(u) ==
    <<u[1] + 256 * u[2], u[3] + 256 * u[4], u[5] + 256 * u[6], u[7] + 256 * u[8]>>

\* a comparison of the low 32 bits alone
U64AtLeastLow32(x, n) == x[2] > 0 \/ x[1] >= n

\* x >= n for a 64-bit x and n < 65536
U64AtLeast(x, n) == x[4] > 0 \/ x[3] > 0 \/ x[2] > 0 \/ x[1] >= n

\* the value of a 64-bit x that is below 65536
U64Low(x) == x[1]

NoNeighbor == [set |-> FALSE, raw |-> <<>>]

\* sd_lldp_neighbor_from_raw(ret, raw, size): the neighbor keeps the frame;
\* in the model a frame is well-formed iff it is not empty and does not
\* start with a zero byte
sd_lldp_neighbor_from_raw(raw) ==
    IF Len(raw) >= 1 /\ raw[1] # 0
    THEN [r |-> 0, n |-> [set |-> TRUE, raw |-> raw]]
    ELSE [r |-> 0 - EBADMSG, n |-> NoNeighbor]

\* a reader that takes a short prefix for the end of the file
next_lldp_neighbor_short_is_end(B, pos) ==
    LET h == fread(B, pos, 8)
        u == le64toh(SubSeq(B, pos + 1, pos + 8))
        p == fread(B, h.pos, U64Low(u))
        d == sd_lldp_neighbor_from_raw(SubSeq(B, h.pos + 1, p.pos))
    IN  IF h.l # 8 THEN [r |-> 0, pos |-> h.pos, n |-> NoNeighbor]
        ELSE IF U64AtLeast(u, LLDP_RAW_MAX)
             THEN [r |-> 0 - EBADMSG, pos |-> h.pos, n |-> NoNeighbor]
        ELSE IF p.l # U64Low(u)
             THEN [r |-> 0 - EBADMSG, pos |-> p.pos, n |-> NoNeighbor]
        ELSE IF d.r < 0 THEN [r |-> d.r, pos |-> p.pos, n |-> NoNeighbor]
        ELSE [r |-> 1, pos |-> p.pos, n |-> d.n]

\* a reader that starts over from where it was after every record
next_lldp_neighbor_rewinds(B, pos) ==
    LET h == fread(B, pos, 8)
        u == le64toh(SubSeq(B, pos + 1, pos + 8))
        p == fread(B, h.pos, U64Low(u))
        d == sd_lldp_neighbor_from_raw(SubSeq(B, h.pos + 1, p.pos))
    IN  IF h.l = 0 /\ h.eof THEN [r |-> 0, pos |-> h.pos, n |-> NoNeighbor]
        ELSE IF h.l # 8 THEN [r |-> 0 - EBADMSG, pos |-> h.pos, n |-> NoNeighbor]
        ELSE IF U64AtLeast(u, LLDP_RAW_MAX)
             THEN [r |-> 0 - EBADMSG, pos |-> h.pos, n |-> NoNeighbor]
        ELSE IF p.l # U64Low(u)
             THEN [r |-> 0 - EBADMSG, pos |-> p.pos, n |-> NoNeighbor]
        ELSE IF d.r < 0 THEN [r |-> d.r, pos |-> p.pos, n |-> NoNeighbor]
        ELSE [r |-> 1, pos |-> pos, n |-> d.n]

\* next_lldp_neighbor(f, ret) on the file B read up to pos:
\* [r, pos, n], n what is stored in *ret
next_lldp_neighbor(B, pos) ==
    LET h == fread(B, pos, 8)
        u == le64toh(SubSeq(B, pos + 1, pos + 8))
        p == fread(B, h.pos, U64Low(u))
        d == sd_lldp_neighbor_from_raw(SubSeq(B, h.pos + 1, p.pos))
    IN  IF h.l = 0 /\ h.eof THEN [r |-> 0, pos |-> h.pos, n |-> NoNeighbor]
        ELSE IF h.l # 8 THEN [r |-> 0 - EBADMSG, pos |-> h.pos, n |-> NoNeighbor]
        ELSE IF U64AtLeast(u, LLDP_RAW_MAX)
             THEN [r |-> 0 - EBADMSG, pos |-> h.pos, n |-> NoNeighbor]
        ELSE IF p.l # U64Low(u)
             THEN [r |-> 0 - EBADMSG, pos |-> p.pos, n |-> NoNeighbor]
        ELSE IF d.r < 0 THEN [r |-> d.r, pos |-> p.pos, n |-> NoNeighbor]
        ELSE [r |-> 1, pos |-> p.pos, n |-> d.n]

\* a store: errno is what fopen fails with (0: the file opens), bytes its content
Store(errno, bytes) == [errno |-> errno, bytes |-> bytes]

\* open_lldp_neighbors(ifindex, &f): 0, or -errno of fopen
open_lldp_neighbors(stores, ifindex) == 0 - stores[ifindex].errno

\* a test that takes no result for "no data"
IsNoDataNever(r) == FALSE

\* lines 712 and 1238: the store does not exist
IsNoData(r) == r = 0 - ENOENT

(* ------------------------------------------------------------------ *)
(* Store files                                                         *)
(* ------------------------------------------------------------------ *)
Zeros(n) == [k \in 1..n |-> 0]

\* the length prefix the writer of the store puts before a frame
htole64(n) == <<n % 256, n \div 256, 0, 0, 0, 0, 0, 0>>

\* one record of the store: [8-byte little-endian length][frame]
StoreRecord(raw) == htole64(Len(raw)) \o raw

FrameA == <<1, 2>>
FrameB == <<3>>
FrameBad == <<0, 9>>                         \* a frame the decoder rejects
FrameMax == <<1>> \o Zeros(LLDP_RAW_MAX - 2)  \* 4095 bytes
FrameOver == <<1>> \o Zeros(LLDP_RAW_MAX - 1) \* 4096 bytes

\* what a store file may be made of
Chunks ==
    { StoreRecord(FrameA),
      StoreRecord(FrameB),
      StoreRecord(FrameBad),
      StoreRecord(<<>>),
      StoreRecord(FrameMax),
      StoreRecord(FrameOver),
      \* a prefix cut short
      <<1, 0, 0>>,
      \* the prefix 2^32 + 1 before one byte
      <<1, 0, 0, 0, 1, 0, 0, 0, 7>>,
      \* the prefix 10 before 8 bytes
      htole64(10) \o <<1, 2, 3, 4, 5, 6, 7, 8>> }

RECURSIVE Concat(_)
Concat(l) == IF l = <<>> THEN <<>> ELSE Head(l) \o Concat(Tail(l))

StoreFiles == { Concat(l) : l \in SeqsUpTo(Chunks, MaxFrames) }

\* the stores the lldp commands go through: none, one that cannot be
\* opened, an empty one, records, records before a prefix cut short, a
\* frame the decoder rejects before a record
LinkStores ==
    { Store(ENOENT, <<>>),
      Store(ENOMEM, <<>>),
      Store(0, <<>>),
      Store(0, StoreRecord(FrameA)),
      Store(0, StoreRecord(FrameB) \o StoreRecord(FrameA)),
      Store(0, StoreRecord(FrameA) \o <<1, 0, 0>>),
      Store(0, StoreRecord(FrameBad) \o StoreRecord(FrameA)) }

\* acquire_link_info returns the links ascending by ifindex
LinkLists ==
    { l \in SeqsUpTo(1..MaxLinks, MaxLinks) :
        \A k \in 1..(Len(l) - 1) : l[k] <= l[k + 1] }

(* ------------------------------------------------------------------ *)
(* link_lldp_status and link_status over the stores                    *)
(* ------------------------------------------------------------------ *)
\* one link with any store file: the commands read it record by record
InitStore ==
    /\ rtnl = <<>>
    /\ verb = "list"
    /\ arg_all = FALSE
    /\ argv = <<>>
    /\ cmd_pc = "off"
    /\ cmd_c = 0
    /\ cmd_i = 0
    /\ indexes = {}
    /\ cmd_j = {}
    /\ cmd_r = 0
    /\ lldp_cmd \in {"lldp", "status"}
    /\ lldp_links = <<1>>
    /\ lldp_stores \in { <<Store(0, f)>> : f \in StoreFiles }
    /\ lldp_pc = "links"
    /\ lldp_i = 0
    /\ lldp_pos = 0
    /\ lldp_c = 0
    /\ lldp_table = <<>>
    /\ lldp_out = <<>>
    /\ lldp_log = <<>>
    /\ lldp_results = <<>>
    /\ lldp_r = 0
    /\ nl_r = 0
    /\ nl_n = NoNeighbor
    /\ table = <<>>
    /\ args = <<>>
    /\ pc = "off"
    /\ patterns = NULL
    /\ reply = <<>>
    /\ i = 0
    /\ links = <<>>
    /\ c = 0
    /\ ret = NoRet
    /\ rc = 0
    /\ prev = NoPrev
    /\ neigh = <<>>
    /\ hwdb = [null |-> TRUE, db |-> {}]
    /\ gw_ifindex = 0
    /\ gw_family = 0
    /\ gateway = <<>>
    /\ gw_pc = "off"
    /\ gw_reply = <<>>
    /\ gw_m = 0
    /\ gateway_description = [set |-> FALSE, v |-> ""]
    /\ gw_rc = 0
    /\ oui_pc = "off"
    /\ oui_mac = ETHER_ADDR_NULL
    /\ oui_ret = [set |-> FALSE, v |-> ""]
    /\ oui_r = 0
    /\ oui_queries = <<>>
    /\ dg_pc = "off"
    /\ dg_ifindex = 0
    /\ routes = <<>>
    /\ local = <<>>
    /\ dg_i = 0
    /\ dg_table = <<>>
    /\ dg_log = <<>>
    /\ dg_r = 0
    /\ labels = <<>>
    /\ al_pc = "off"
    /\ al_reply = <<>>
    /\ al_m = 0
    /\ al_label = 0
    /\ al_table = <<>>
    /\ al_log = <<>>
    /\ al_out = [set |-> FALSE, rows |-> <<>>]
    /\ al_r = 0

\* the links acquire_link_info returned, each with its store
InitLldp ==
    /\ rtnl = <<>>
    /\ verb = "list"
    /\ arg_all = FALSE
    /\ argv = <<>>
    /\ cmd_pc = "off"
    /\ cmd_c = 0
    /\ cmd_i = 0
    /\ indexes = {}
    /\ cmd_j = {}
    /\ cmd_r = 0
    /\ lldp_cmd \in {"lldp", "status"}
    /\ lldp_links \in LinkLists
    /\ lldp_stores \in [1..MaxLinks -> LinkStores]
    /\ lldp_pc = "links"
    /\ lldp_i = 0
    /\ lldp_pos = 0
    /\ lldp_c = 0
    /\ lldp_table = <<>>
    /\ lldp_out = <<>>
    /\ lldp_log = <<>>
    /\ lldp_results = <<>>
    /\ lldp_r = 0
    /\ nl_r = 0
    /\ nl_n = NoNeighbor
    /\ table = <<>>
    /\ args = <<>>
    /\ pc = "off"
    /\ patterns = NULL
    /\ reply = <<>>
    /\ i = 0
    /\ links = <<>>
    /\ c = 0
    /\ ret = NoRet
    /\ rc = 0
    /\ prev = NoPrev
    /\ neigh = <<>>
    /\ hwdb = [null |-> TRUE, db |-> {}]
    /\ gw_ifindex = 0
    /\ gw_family = 0
    /\ gateway = <<>>
    /\ gw_pc = "off"
    /\ gw_reply = <<>>
    /\ gw_m = 0
    /\ gateway_description = [set |-> FALSE, v |-> ""]
    /\ gw_rc = 0
    /\ oui_pc = "off"
    /\ oui_mac = ETHER_ADDR_NULL
    /\ oui_ret = [set |-> FALSE, v |-> ""]
    /\ oui_r = 0
    /\ oui_queries = <<>>
    /\ dg_pc = "off"
    /\ dg_ifindex = 0
    /\ routes = <<>>
    /\ local = <<>>
    /\ dg_i = 0
    /\ dg_table = <<>>
    /\ dg_log = <<>>
    /\ dg_r = 0
    /\ labels = <<>>
    /\ al_pc = "off"
    /\ al_reply = <<>>
    /\ al_m = 0
    /\ al_label = 0
    /\ al_table = <<>>
    /\ al_log = <<>>
    /\ al_out = [set |-> FALSE, rows |-> <<>>]
    /\ al_r = 0

\* the line link_lldp_status prints for a neighbor
LldpLine(i_, ifindex, n) == [i |-> i_, ifindex |-> ifindex, n |-> n.raw]

\* the row dump_lldp_neighbors adds for a neighbor
NeighborRow(i_, ifindex, c_, n) ==
    [i |-> i_, ifindex |-> ifindex,
     prefix |-> IF c_ = 0 THEN "Connected To:" ELSE "", n |-> n.raw]

\* link_lldp_status, lines 1234-1243: the store of the next link is opened
LldpOpen ==
    /\ UNCHANGED otherThanLldp
    /\ lldp_cmd = "lldp"
    /\ lldp_pc = "links"
    /\ lldp_i < Len(lldp_links)
    /\ LET r == open_lldp_neighbors(lldp_stores, lldp_links[lldp_i + 1])
       IN  IF IsNoData(r)
           THEN /\ lldp_i' = lldp_i + 1
                /\ UNCHANGED <<lldp_pc, lldp_pos, lldp_log>>
           ELSE IF r < 0
           THEN /\ lldp_log' = Append(lldp_log, [i |-> lldp_i, r |-> r])
                /\ lldp_i' = lldp_i + 1
                /\ UNCHANGED <<lldp_pc, lldp_pos>>
           ELSE /\ lldp_pc' = "read"
                /\ lldp_pos' = 0
                /\ UNCHANGED <<lldp_i, lldp_log>>
    /\ UNCHANGED <<lldp_cmd, lldp_links, lldp_stores, lldp_c, lldp_table, lldp_out,
                   lldp_results, lldp_r, nl_r, nl_n>>

\* a loop that gives the command up when a store cannot be read
LldpReadAborts ==
    /\ UNCHANGED otherThanLldp
    /\ lldp_cmd = "lldp"
    /\ lldp_pc = "read"
    /\ LET d == next_lldp_neighbor(lldp_stores[lldp_links[lldp_i + 1]].bytes, lldp_pos)
       IN  /\ nl_r' = d.r
           /\ nl_n' = d.n
           /\ lldp_pos' = d.pos
           /\ IF d.r < 0
              THEN /\ lldp_r' = d.r
                   /\ lldp_pc' = "done"
                   /\ UNCHANGED <<lldp_i, lldp_out, lldp_c, lldp_log>>
              ELSE IF d.r = 0
              THEN /\ lldp_pc' = "links"
                   /\ lldp_i' = lldp_i + 1
                   /\ UNCHANGED <<lldp_log, lldp_out, lldp_c, lldp_r>>
              ELSE /\ lldp_out' = Append(lldp_out,
                           LldpLine(lldp_i, lldp_links[lldp_i + 1], d.n))
                   /\ lldp_c' = lldp_c + 1
                   /\ UNCHANGED <<lldp_pc, lldp_i, lldp_log, lldp_r>>
    /\ UNCHANGED <<lldp_cmd, lldp_links, lldp_stores, lldp_table, lldp_results>>

\* link_lldp_status, lines 1245-1302: one iteration of the loop over the
\* records of the open store
LldpRead ==
    /\ UNCHANGED otherThanLldp
    /\ lldp_cmd = "lldp"
    /\ lldp_pc = "read"
    /\ LET d == next_lldp_neighbor(lldp_stores[lldp_links[lldp_i + 1]].bytes, lldp_pos)
       IN  /\ nl_r' = d.r
           /\ nl_n' = d.n
           /\ lldp_pos' = d.pos
           /\ IF d.r < 0
              THEN /\ lldp_log' = Append(lldp_log, [i |-> lldp_i, r |-> d.r])
                   /\ lldp_pc' = "links"
                   /\ lldp_i' = lldp_i + 1
                   /\ UNCHANGED <<lldp_out, lldp_c>>
              ELSE IF d.r = 0
              THEN /\ lldp_pc' = "links"
                   /\ lldp_i' = lldp_i + 1
                   /\ UNCHANGED <<lldp_log, lldp_out, lldp_c>>
              ELSE /\ lldp_out' = Append(lldp_out,
                           LldpLine(lldp_i, lldp_links[lldp_i + 1], d.n))
                   /\ lldp_c' = lldp_c + 1
                   /\ UNCHANGED <<lldp_pc, lldp_i, lldp_log>>
    /\ UNCHANGED <<lldp_cmd, lldp_links, lldp_stores, lldp_table, lldp_results, lldp_r>>

\* link_lldp_status, lines 1305-1310
LldpEnd ==
    /\ UNCHANGED otherThanLldp
    /\ lldp_cmd = "lldp"
    /\ lldp_pc = "links"
    /\ lldp_i >= Len(lldp_links)
    /\ lldp_r' = 0
    /\ lldp_pc' = "done"
    /\ UNCHANGED <<lldp_cmd, lldp_links, lldp_stores, lldp_i, lldp_pos, lldp_c,
                   lldp_table, lldp_out, lldp_log, lldp_results, nl_r, nl_n>>

\* link_status, lines 1149-1153: link_status_one is called for the next
\* link and comes to dump_lldp_neighbors (line 1047), which opens the
\* store (lines 711-715); without a store it returns 0 and the table of
\* the link is printed, on another failure the table is dropped
StatusOpen ==
    /\ UNCHANGED otherThanLldp
    /\ lldp_cmd = "status"
    /\ lldp_pc = "links"
    /\ lldp_i < Len(lldp_links)
    /\ LET r == open_lldp_neighbors(lldp_stores, lldp_links[lldp_i + 1])
       IN  IF IsNoData(r)
           THEN /\ lldp_results' = Append(lldp_results, 0)
                /\ lldp_i' = lldp_i + 1
                /\ UNCHANGED <<lldp_pc, lldp_pos, lldp_c, lldp_table>>
           ELSE IF r < 0
           THEN /\ lldp_results' = Append(lldp_results, r)
                /\ lldp_i' = lldp_i + 1
                /\ UNCHANGED <<lldp_pc, lldp_pos, lldp_c, lldp_table>>
           ELSE /\ lldp_pc' = "read"
                /\ lldp_pos' = 0
                /\ lldp_c' = 0
                /\ lldp_table' = <<>>
                /\ UNCHANGED <<lldp_i, lldp_results>>
    /\ UNCHANGED <<lldp_cmd, lldp_links, lldp_stores, lldp_out, lldp_log, lldp_r,
                   nl_r, nl_n>>

\* dump_lldp_neighbors, lines 717-754: one iteration of its loop; on an
\* error link_status_one returns without printing the table (lines
\* 1047-1049), at the end of the store it prints it (line 1051)
StatusRead ==
    /\ UNCHANGED otherThanLldp
    /\ lldp_cmd = "status"
    /\ lldp_pc = "read"
    /\ LET d == next_lldp_neighbor(lldp_stores[lldp_links[lldp_i + 1]].bytes, lldp_pos)
       IN  /\ nl_r' = d.r
           /\ nl_n' = d.n
           /\ lldp_pos' = d.pos
           /\ IF d.r < 0
              THEN /\ lldp_results' = Append(lldp_results, d.r)
                   /\ lldp_table' = <<>>
                   /\ lldp_pc' = "links"
                   /\ lldp_i' = lldp_i + 1
                   /\ UNCHANGED <<lldp_out, lldp_c>>
              ELSE IF d.r = 0
              THEN /\ lldp_results' = Append(lldp_results, lldp_c)
                   /\ lldp_out' = lldp_out \o lldp_table
                   /\ lldp_table' = <<>>
                   /\ lldp_pc' = "links"
                   /\ lldp_i' = lldp_i + 1
                   /\ UNCHANGED lldp_c
              ELSE /\ lldp_table' = Append(lldp_table,
                           NeighborRow(lldp_i, lldp_links[lldp_i + 1], lldp_c, d.n))
                   /\ lldp_c' = lldp_c + 1
                   /\ UNCHANGED <<lldp_pc, lldp_i, lldp_out, lldp_results>>
    /\ UNCHANGED <<lldp_cmd, lldp_links, lldp_stores, lldp_log, lldp_r>>

\* link_status, line 1156
StatusEnd ==
    /\ UNCHANGED otherThanLldp
    /\ lldp_cmd = "status"
    /\ lldp_pc = "links"
    /\ lldp_i >= Len(lldp_links)
    /\ lldp_r' = 0
    /\ lldp_pc' = "done"
    /\ UNCHANGED <<lldp_cmd, lldp_links, lldp_stores, lldp_i, lldp_pos, lldp_c,
                   lldp_table, lldp_out, lldp_log, lldp_results, nl_r, nl_n>>

NextLldp ==
    \/ LldpOpen
    \/ LldpRead
    \/ LldpEnd
    \/ StatusOpen
    \/ StatusRead
    \/ StatusEnd

(* ------------------------------------------------------------------ *)
(* dump_address_labels                                                 *)
(* ------------------------------------------------------------------ *)
MaxLabels == 2      \* longest address label dump

LabelMsg(errno, label, address, prefixlen) ==
    [errno |-> errno, label |-> label, address |-> address, prefixlen |-> prefixlen]

Prefix1 == <<<<0, 0, 0, 0>>, Tail12(1)>>           \* ::1
Prefix2 == <<<<32, 1, 13, 184>>, Tail12(0)>>       \* 2001:db8::

LabelMessages ==
    { LabelMsg(0, Ok(1), Ok(Prefix1), Ok(128)),
      LabelMsg(0, Ok(5), Ok(Prefix2), Ok(32)),
      \* no label attribute
      LabelMsg(0, Fail(ENODATA, 0), Ok(Prefix1), Ok(96)),
      \* a label attribute that cannot be read
      LabelMsg(0, Fail(EINVAL, 0), Ok(Prefix2), Ok(32)),
      \* an error message
      LabelMsg(0 - EINVAL, Ok(1), Ok(Prefix1), Ok(128)),
      \* unreadable prefix, unreadable prefix length
      LabelMsg(0, Ok(1), Fail(ENODATA, IN_ADDR_NULL), Ok(128)),
      LabelMsg(0, Ok(5), Ok(Prefix2), Fail(EINVAL, 0)) }

LabelTables == SeqsUpTo(LabelMessages, MaxLabels)

\* a test that tolerates no failure of the read
LabelReadFailsAny(r) == r < 0

\* line 611: the label cannot be read, for another reason than its absence
LabelReadFails(r) == r < 0 /\ r # 0 - ENODATA

\* lines 628-632: the row of an entry
LabelRow(label, prefix, prefixlen) ==
    [label |-> label, prefix |-> in_addr_to_string(AF_INET6, prefix),
     prefixlen |-> prefixlen]

\* table_set_sort(table, 0, SIZE_MAX) and table_print: the rows come out
\* ordered by the label column
SortedByLabel(rows) ==
    { t \in { [k \in 1..Len(rows) |-> rows[p[k]]] : p \in Permutations(1..Len(rows)) } :
        \A k \in 1..(Len(t) - 1) : t[k].label <= t[k + 1].label }

NoOutput == [set |-> FALSE, rows |-> <<>>]

\* dump_address_labels is called; the memory of label holds anything
InitLabel ==
    /\ rtnl = <<>>
    /\ verb = "list"
    /\ arg_all = FALSE
    /\ argv = <<>>
    /\ cmd_pc = "off"
    /\ cmd_c = 0
    /\ cmd_i = 0
    /\ indexes = {}
    /\ cmd_j = {}
    /\ cmd_r = 0
    /\ labels \in LabelTables
    /\ al_pc = "idle"
    /\ al_reply = <<>>
    /\ al_m = 0
    /\ al_label \in UninitValues
    /\ al_table = <<>>
    /\ al_log = <<>>
    /\ al_out = NoOutput
    /\ al_r = 0
    /\ table = <<>>
    /\ args = <<>>
    /\ pc = "off"
    /\ patterns = NULL
    /\ reply = <<>>
    /\ i = 0
    /\ links = <<>>
    /\ c = 0
    /\ ret = NoRet
    /\ rc = 0
    /\ prev = NoPrev
    /\ neigh = <<>>
    /\ hwdb = [null |-> TRUE, db |-> {}]
    /\ gw_ifindex = 0
    /\ gw_family = 0
    /\ gateway = <<>>
    /\ gw_pc = "off"
    /\ gw_reply = <<>>
    /\ gw_m = 0
    /\ gateway_description = [set |-> FALSE, v |-> ""]
    /\ gw_rc = 0
    /\ oui_pc = "off"
    /\ oui_mac = ETHER_ADDR_NULL
    /\ oui_ret = [set |-> FALSE, v |-> ""]
    /\ oui_r = 0
    /\ oui_queries = <<>>
    /\ dg_pc = "off"
    /\ dg_ifindex = 0
    /\ routes = <<>>
    /\ local = <<>>
    /\ dg_i = 0
    /\ dg_table = <<>>
    /\ dg_log = <<>>
    /\ dg_r = 0
    /\ lldp_cmd = "lldp"
    /\ lldp_links = <<>>
    /\ lldp_stores = <<>>
    /\ lldp_pc = "off"
    /\ lldp_i = 0
    /\ lldp_pos = 0
    /\ lldp_c = 0
    /\ lldp_table = <<>>
    /\ lldp_out = <<>>
    /\ lldp_log = <<>>
    /\ lldp_results = <<>>
    /\ lldp_r = 0
    /\ nl_r = 0
    /\ nl_n = [set |-> FALSE, raw |-> <<>>]

\* lines 572-596: the dump is requested and answered, the table is set up
LabelDump ==
    /\ UNCHANGED otherThanLabel
    /\ al_pc = "idle"
    /\ al_reply' = labels
    /\ al_m' = 1
    /\ al_pc' = "loop"
    /\ UNCHANGED <<labels, al_label, al_table, al_log, al_out, al_r>>

\* lines 572-582: the request cannot be built, or sd_netlink_call fails
LabelDumpFails ==
    /\ UNCHANGED otherThanLabel
    /\ al_pc = "idle"
    /\ al_r' = 0 - ENOMEM
    /\ al_pc' = "done"
    /\ UNCHANGED <<labels, al_reply, al_m, al_label, al_table, al_log, al_out>>

\* lines 598-637: one iteration of the loop.  label is not initialised:
\* before the read it holds what its memory held, or anything else
LabelStep ==
    /\ UNCHANGED otherThanLabel
    /\ al_pc = "loop"
    /\ al_m <= Len(al_reply)
    /\ \E junk \in UninitValues \cup {al_label} :
         LET m == al_reply[al_m]
             label == ReadAttr(m.label, junk)
         IN  IF m.errno < 0
             THEN /\ al_log' = Append(al_log, [m |-> al_m, r |-> m.errno])
                  /\ UNCHANGED <<al_label, al_table>>
             ELSE IF LabelReadFails(m.label.r)
             THEN /\ al_log' = Append(al_log, [m |-> al_m, r |-> m.label.r])
                  /\ al_label' = label
                  /\ UNCHANGED al_table
             ELSE IF m.address.r < 0 \/ m.prefixlen.r < 0
             THEN /\ al_label' = label
                  /\ UNCHANGED <<al_log, al_table>>
             ELSE /\ al_label' = label
                  /\ al_table' = Append(al_table,
                          LabelRow(label, m.address.v, m.prefixlen.v))
                  /\ UNCHANGED al_log
    /\ al_m' = al_m + 1
    /\ UNCHANGED <<labels, al_pc, al_reply, al_out, al_r>>

\* line 639: the table is printed
LabelPrint ==
    /\ UNCHANGED otherThanLabel
    /\ al_pc = "loop"
    /\ al_m > Len(al_reply)
    /\ \E t \in SortedByLabel(al_table) : al_out' = [set |-> TRUE, rows |-> t]
    /\ al_r' = 0
    /\ al_pc' = "done"
    /\ UNCHANGED <<labels, al_reply, al_m, al_label, al_table, al_log>>

NextLabel ==
    \/ LabelDump
    \/ LabelDumpFails
    \/ LabelStep
    \/ LabelPrint

(* ------------------------------------------------------------------ *)
(* networkctl_main: the commands and the transport                     *)
(* ------------------------------------------------------------------ *)
MaxArgs == 2        \* most arguments of a command

\* lines 1453-1458: the verbs
Verbs == {"list", "status", "lldp", "label", "delete"}

\* an argument, by what parse_ifindex_or_ifname makes of it: an interface
\* index, or an error
CmdArgs == {Ok(2), Ok(3), Fail(EINVAL, 0)}

\* delete takes at least one argument (line 1458)
CmdArgLists(v) ==
    { a \in SeqsUpTo(CmdArgs, MaxArgs) : v = "delete" => Len(a) >= 1 }

\* sd_netlink_open(&rtnl)
Opened(r) == [ev |-> "open", req |-> "", index |-> 0, r |-> r]

\* what a call of the transport may return
CallResults == {0, 0 - ENOMEM}

\* dump_addresses, then dump_gateways (lines 1015-1020, 1094-1099): the
\* address dump, and when it is answered the route dump; [log, r].  The
\* neighbor dumps of dump_gateways, whose failure it only logs, are left out
DumpBoth(ifindex, ra, rg) ==
    IF ra < 0
    THEN [log |-> Call("address", ifindex, ra), r |-> ra]
    ELSE [log |-> Call("address", ifindex, ra) \o Call("route", ifindex, rg), r |-> rg]

\* the command uses the link enumeration (lines 234, 1140-1145, 1219)
UsesLinks ==
    \/ verb \in {"list", "lldp"}
    \/ verb = "status" /\ (arg_all \/ Len(argv) > 0)

\* a command is dispatched
InitCmd ==
    /\ verb \in Verbs
    /\ arg_all \in BOOLEAN
    /\ argv \in CmdArgLists(verb)
    /\ cmd_pc = "start"
    /\ cmd_c = 0
    /\ cmd_i = 0
    /\ indexes = {}
    /\ cmd_j = {}
    /\ cmd_r = 0
    /\ rtnl = <<>>
    /\ table = <<>>
    /\ args = <<>>
    /\ pc = "off"
    /\ patterns = NULL
    /\ reply = <<>>
    /\ i = 0
    /\ links = <<>>
    /\ c = 0
    /\ ret = NoRet
    /\ rc = 0
    /\ prev = NoPrev
    /\ neigh = <<>>
    /\ hwdb = [null |-> TRUE, db |-> {}]
    /\ gw_ifindex = 0
    /\ gw_family = 0
    /\ gateway = <<>>
    /\ gw_pc = "off"
    /\ gw_reply = <<>>
    /\ gw_m = 0
    /\ gateway_description = [set |-> FALSE, v |-> ""]
    /\ gw_rc = 0
    /\ oui_pc = "off"
    /\ oui_mac = ETHER_ADDR_NULL
    /\ oui_ret = [set |-> FALSE, v |-> ""]
    /\ oui_r = 0
    /\ oui_queries = <<>>
    /\ dg_pc = "off"
    /\ dg_ifindex = 0
    /\ routes = <<>>
    /\ local = <<>>
    /\ dg_i = 0
    /\ dg_table = <<>>
    /\ dg_log = <<>>
    /\ dg_r = 0
    /\ lldp_cmd = "lldp"
    /\ lldp_links = <<>>
    /\ lldp_stores = <<>>
    /\ lldp_pc = "off"
    /\ lldp_i = 0
    /\ lldp_pos = 0
    /\ lldp_c = 0
    /\ lldp_table = <<>>
    /\ lldp_out = <<>>
    /\ lldp_log = <<>>
    /\ lldp_results = <<>>
    /\ lldp_r = 0
    /\ nl_r = 0
    /\ nl_n = [set |-> FALSE, raw |-> <<>>]
    /\ labels = <<>>
    /\ al_pc = "off"
    /\ al_reply = <<>>
    /\ al_m = 0
    /\ al_label = 0
    /\ al_table = <<>>
    /\ al_log = <<>>
    /\ al_out = [set |-> FALSE, rows |-> <<>>]
    /\ al_r = 0

\* sd_netlink_open succeeds (lines 231, 1132, 1215, 646, 1337)
CmdOpen ==
    /\ UNCHANGED otherThanCmd
    /\ cmd_pc = "start"
    /\ rtnl' = Append(rtnl, Opened(0))
    /\ cmd_pc' = "opened"
    /\ UNCHANGED <<verb, arg_all, argv, cmd_c, cmd_i, indexes, cmd_j, cmd_r>>

\* sd_netlink_open fails: the command returns the error
CmdOpenFails ==
    /\ UNCHANGED otherThanCmd
    /\ cmd_pc = "start"
    /\ rtnl' = Append(rtnl, Opened(0 - ENOMEM))
    /\ cmd_r' = 0 - ENOMEM
    /\ cmd_pc' = "done"
    /\ UNCHANGED <<verb, arg_all, argv, cmd_c, cmd_i, indexes, cmd_j>>

\* acquire_link_info returns the number of links (lines 234, 1141-1145,
\* 1219); list_links and link_lldp_status then print and return 0,
\* link_status goes through the links
Acquire ==
    /\ UNCHANGED otherThanCmd
    /\ cmd_pc = "opened"
    /\ UsesLinks
    /\ rtnl' = rtnl \o Call("link", 0, 0)
    /\ \E n \in 0..MaxLinks : cmd_c' = n
    /\ cmd_i' = 0
    /\ IF verb = "status"
       THEN cmd_pc' = "links" /\ UNCHANGED cmd_r
       ELSE cmd_pc' = "done" /\ cmd_r' = 0
    /\ UNCHANGED <<verb, arg_all, argv, indexes, cmd_j>>

\* acquire_link_info fails, the link dump not being answered (lines
\* 202-204), or a link message not being decoded (lines 209-211): c < 0
\* and the command returns c
AcquireFails ==
    /\ UNCHANGED otherThanCmd
    /\ cmd_pc = "opened"
    /\ UsesLinks
    /\ \E answered \in BOOLEAN :
         IF answered
         THEN rtnl' = rtnl \o Call("link", 0, 0) /\ cmd_c' = 0 - EINVAL
         ELSE rtnl' = rtnl \o Call("link", 0, 0 - ENOMEM) /\ cmd_c' = 0 - ENOMEM
    /\ cmd_r' = cmd_c'
    /\ cmd_pc' = "done"
    /\ UNCHANGED <<verb, arg_all, argv, cmd_i, indexes, cmd_j>>

\* lines 1142-1143, 1094-1099: status without arguments is system_status,
\* which returns the error of its dumps
SystemStatus ==
    /\ UNCHANGED otherThanCmd
    /\ cmd_pc = "opened"
    /\ verb = "status" /\ ~arg_all /\ Len(argv) = 0
    /\ \E ra \in CallResults, rg \in CallResults :
         /\ rtnl' = rtnl \o DumpBoth(0, ra, rg).log
         /\ cmd_r' = DumpBoth(0, ra, rg).r
    /\ cmd_pc' = "done"
    /\ UNCHANGED <<verb, arg_all, argv, cmd_c, cmd_i, indexes, cmd_j>>

\* lines 1149-1153: link_status_one for the next link; what it returns is
\* not looked at
StatusOne ==
    /\ UNCHANGED otherThanCmd
    /\ cmd_pc = "links"
    /\ cmd_i < cmd_c
    /\ \E ra \in CallResults, rg \in CallResults :
         rtnl' = rtnl \o DumpBoth(cmd_i + 1, ra, rg).log
    /\ cmd_i' = cmd_i + 1
    /\ UNCHANGED <<verb, arg_all, argv, cmd_pc, cmd_c, indexes, cmd_j, cmd_r>>

\* line 1156: every link was shown
StatusDone ==
    /\ UNCHANGED otherThanCmd
    /\ cmd_pc = "links"
    /\ cmd_i >= cmd_c
    /\ cmd_r' = 0
    /\ cmd_pc' = "done"
    /\ UNCHANGED <<verb, arg_all, argv, cmd_c, cmd_i, indexes, cmd_j, rtnl>>

\* lines 650-652: dump_address_labels is called, what it returns is not
\* looked at
LabelCmd ==
    /\ UNCHANGED otherThanCmd
    /\ cmd_pc = "opened"
    /\ verb = "label"
    /\ \E r \in CallResults : rtnl' = rtnl \o Call("addrlabel", 0, r)
    /\ cmd_r' = 0
    /\ cmd_pc' = "done"
    /\ UNCHANGED <<verb, arg_all, argv, cmd_c, cmd_i, indexes, cmd_j>>

\* lines 1345-1353: the next argument is resolved and put into the set
DeleteResolve ==
    /\ UNCHANGED otherThanCmd
    /\ cmd_pc = "opened"
    /\ verb = "delete"
    /\ cmd_i < Len(argv)
    /\ LET arg == argv[cmd_i + 1]
       IN  IF arg.r < 0
           THEN /\ cmd_r' = arg.r
                /\ cmd_pc' = "done"
                /\ UNCHANGED <<indexes, cmd_i>>
           ELSE /\ indexes' = indexes \cup {arg.v}
                /\ cmd_i' = cmd_i + 1
                /\ cmd_pc' = IF cmd_i + 1 = Len(argv) THEN "send" ELSE "opened"
                /\ UNCHANGED cmd_r
    /\ UNCHANGED <<verb, arg_all, argv, cmd_c, cmd_j, rtnl>>

\* a loop that goes on to the next index when a request fails
DeleteSendGoesOn ==
    /\ UNCHANGED otherThanCmd
    /\ cmd_pc = "send"
    /\ \E index \in indexes \ cmd_j, r \in CallResults :
         /\ rtnl' = rtnl \o Call("dellink", index, r)
         /\ cmd_j' = cmd_j \cup {index}
         /\ cmd_r' = r
         /\ cmd_pc' = IF cmd_j' = indexes THEN "done" ELSE "send"
    /\ UNCHANGED <<verb, arg_all, argv, cmd_c, cmd_i, indexes>>

\* lines 1355-1365, 1313-1328: the request for the next index of the set,
\* in the order of the set's iterator; the first failure is returned, and
\* so is the 0 of the last request
DeleteSend ==
    /\ UNCHANGED otherThanCmd
    /\ cmd_pc = "send"
    /\ \E index \in indexes \ cmd_j, r \in CallResults :
         /\ rtnl' = rtnl \o Call("dellink", index, r)
         /\ cmd_j' = cmd_j \cup {index}
         /\ cmd_r' = r
         /\ cmd_pc' = IF r < 0 \/ cmd_j' = indexes THEN "done" ELSE "send"
    /\ UNCHANGED <<verb, arg_all, argv, cmd_c, cmd_i, indexes>>

NextCmd ==
    \/ CmdOpen
    \/ CmdOpenFails
    \/ Acquire
    \/ AcquireFails
    \/ SystemStatus
    \/ StatusOne
    \/ StatusDone
    \/ LabelCmd
    \/ DeleteResolve
    \/ DeleteSend

Spec == Init /\ [][Next]_vars

SpecDump == InitDump /\ [][NextDump]_vars

\* the commands run to their end: nothing but the program takes steps
SpecStore == InitStore /\ [][NextLldp]_vars /\ WF_vars(NextLldp)

SpecLldp == InitLldp /\ [][NextLldp]_vars

SpecLabel == InitLabel /\ [][NextLabel]_vars

SpecOui == InitOui /\ [][NextOui]_vars

SpecGw == InitGw /\ [][NextGw]_vars

SpecCmd == InitCmd /\ [][NextCmd]_vars

(* ------------------------------------------------------------------ *)
(* What the link enumeration is to deliver                             *)
(* ------------------------------------------------------------------ *)
Count(s, x) == Cardinality({ k \in 1..Len(s) : s[k] = x })

IsLinkMsg(m) == m.type.r >= 0 /\ m.type.v = RTM_NEWLINK

\* the index string or the name of m matches at least one pattern of P
MatchesSome(m, P) ==
    \E k \in 1..Len(P) :
        \/ fnmatch(P[k], DecimalStr(m.ifindex.v))
        \/ fnmatch(P[k], m.name.v)

Optional(present, v, none) == [present |-> present, v |-> IF present THEN v ELSE none]

\* a link record as its reader sees it: optional values count only when present
RecordOf(x) ==
    [ifindex |-> x.ifindex, name |-> x.name, iftype |-> x.iftype,
     mac |-> Optional(x.has_mac_address, x.mac_address, ETHER_ADDR_NULL),
     mtu |-> Optional(x.has_mtu, x.mtu, 0),
     rxq |-> Optional(x.has_rx_queues, x.rx_queues, 0),
     txq |-> Optional(x.has_tx_queues, x.tx_queues, 0)]

\* the record a link message describes
Described(m) ==
    [ifindex |-> m.ifindex.v, name |-> m.name.v, iftype |-> m.iftype.v,
     mac |-> Optional(m.address.r >= 0 /\ m.address.v # ETHER_ADDR_NULL,
                      m.address.v, ETHER_ADDR_NULL),
     mtu |-> Optional(m.mtu.r >= 0 /\ m.mtu.v > 0, m.mtu.v, 0),
     rxq |-> Optional(m.rxq.r >= 0 /\ m.rxq.v > 0, m.rxq.v, 0),
     txq |-> Optional(m.txq.r >= 0 /\ m.txq.v > 0, m.txq.v, 0)]

Records(s) == [k \in 1..Len(s) |-> RecordOf(s[k])]

Ascending(s) == \A k \in 1..(Len(s) - 1) : s[k].ifindex <= s[k + 1].ifindex

Returned == pc = "done" /\ ret.set

\* the result holds each record as often as the messages S selects describe it
ExactlyThose(S) ==
    /\ rc = Len(ret.links)
    /\ rc = Cardinality(S)
    /\ \A n \in S :
         Count(Records(ret.links), Described(reply[n]))
           = Cardinality({ k \in S : Described(reply[k]) = Described(reply[n]) })

(* C1: with a non-empty pattern list P, acquire_link_info returns exactly
   the records of the RTM_NEWLINK messages whose decimal index string or
   name matches a pattern of P, ascending by ifindex, and its return value
   is their number. *)
C1_FilterExact ==
    (Returned /\ ~patterns.null) =>
        /\ ExactlyThose({ n \in 1..Len(reply) :
                            IsLinkMsg(reply[n]) /\ MatchesSome(reply[n], patterns.strv) })
        /\ Ascending(ret.links)

C1_Witness ==
    /\ Returned /\ ~patterns.null
    /\ Len(reply) = 2 /\ rc = 2
    /\ reply[1].ifindex.v > reply[2].ifindex.v
    /\ \E k \in 1..Len(patterns.strv) :
         /\ fnmatch(patterns.strv[k], reply[1].name.v)
         /\ ~fnmatch(patterns.strv[k], DecimalStr(reply[1].ifindex.v))
         /\ fnmatch(patterns.strv[k], DecimalStr(reply[2].ifindex.v))
         /\ ~fnmatch(patterns.strv[k], reply[2].name.v)

(* C2: when the command is given no pattern (the list is absent or empty),
   no record is dropped: the result is all decoded records, ascending by
   ifindex. *)
C2_NoPatternsKeepAll ==
    (Returned /\ Len(args) = 0) =>
        /\ ExactlyThose({ n \in 1..Len(reply) : IsLinkMsg(reply[n]) })
        /\ Ascending(ret.links)

C2_Witness ==
    /\ Returned /\ Len(args) = 0
    /\ rc = 2
    /\ ret.links[1].ifindex < ret.links[2].ifindex
    /\ reply[1].ifindex.v > reply[2].ifindex.v

\* the dump was answered (the transport did not fail)
Answered == pc = "done" /\ i > 0

Unreadable(f) == f.r < 0

\* the first message of the reply that satisfies Bad
FirstOf(Bad(_)) ==
    CHOOSE n \in 1..Len(reply) : Bad(reply[n]) /\ \A k \in 1..(n - 1) : ~Bad(reply[k])

\* the error of the first accessor that fails on m
ErrorOf(m) ==
    IF Unreadable(m.type) THEN m.type.r
    ELSE IF Unreadable(m.ifindex) THEN m.ifindex.r
    ELSE IF Unreadable(m.name) THEN m.name.r
    ELSE m.iftype.r

MandatoryUnreadable(m) ==
    IsLinkMsg(m) /\ (Unreadable(m.ifindex) \/ Unreadable(m.name) \/ Unreadable(m.iftype))

(* C3, as claimed: a link message whose index, name or interface type
   cannot be read makes decode_link fail, whatever the patterns, so that
   acquire_link_info returns an error and delivers no result. *)
C3_AsClaimed ==
    (Answered /\ \E n \in 1..Len(reply) : MandatoryUnreadable(reply[n])) =>
        (rc < 0 /\ ~ret.set)

\* decode_link reads the interface type only of a message that passed the filter
FailsDecoding(m) ==
    \/ Unreadable(m.type)
    \/ /\ IsLinkMsg(m)
       /\ \/ Unreadable(m.ifindex)
          \/ Unreadable(m.name)
          \/ /\ Unreadable(m.iftype)
             /\ (patterns.null \/ MatchesSome(m, patterns.strv))

(* C3, amended: a link message whose index or name cannot be read, or whose
   interface type cannot be read while the message passes the pattern
   filter, makes decode_link fail: acquire_link_info aborts at the first
   such message, returns its error and delivers no result.  A link message
   the filter rejects is 'not applicable' even if its interface type is
   unreadable, and an enumeration that meets no failing message succeeds. *)
C3_MandatoryFieldAborts ==
    Answered =>
        IF \E n \in 1..Len(reply) : FailsDecoding(reply[n])
        THEN /\ rc = ErrorOf(reply[FirstOf(FailsDecoding)])
             /\ rc < 0
             /\ ~ret.set
             /\ i = FirstOf(FailsDecoding)
        ELSE rc >= 0 /\ ret.set

C3_Witness ==
    /\ Answered
    /\ rc < 0 /\ ~ret.set
    /\ i = 2
    /\ IsLinkMsg(reply[1]) /\ Unreadable(reply[1].iftype)
    /\ IsLinkMsg(reply[2]) /\ Unreadable(reply[2].name)
    /\ rc = reply[2].name.r

(* C4: a message whose type tag is not RTM_NEWLINK is 'not applicable' and
   never an error: the loop step that meets it adds no record, leaves the
   count alone and goes on to the next message. *)
C4_OtherTypeSkipped ==
    [][ (pc = "loop" /\ i <= Len(reply)
           /\ reply[i].type.r >= 0 /\ reply[i].type.v # RTM_NEWLINK)
        => /\ pc' = "loop"
           /\ i' = i + 1
           /\ c' = c
           /\ SubSeq(links', 1, c') = SubSeq(links, 1, c)
           /\ rc' = rc ]_vars

C4_Witness ==
    /\ Returned
    /\ rc = 1
    /\ Len(reply) = 2
    /\ reply[1].type.v = RTM_DELLINK
    /\ IsLinkMsg(reply[2])

(* C5: in every record of a result the hardware address is present iff it
   was read and is not all-zero, the MTU and the queue counts are present
   iff they were read and are > 0; an optional attribute that cannot be read
   never makes the enumeration fail. *)
C5_OptionalFlags ==
    /\ Returned =>
         \A k \in 1..Len(ret.links) :
            \E n \in 1..Len(reply) :
               LET m == reply[n]
                   x == ret.links[k]
               IN  /\ IsLinkMsg(m)
                   /\ m.ifindex.v = x.ifindex /\ m.name.v = x.name
                   /\ x.has_mac_address
                        <=> (m.address.r >= 0 /\ m.address.v # ETHER_ADDR_NULL)
                   /\ x.has_mac_address => x.mac_address = m.address.v
                   /\ x.has_mtu <=> (m.mtu.r >= 0 /\ m.mtu.v > 0)
                   /\ x.has_mtu => x.mtu = m.mtu.v
                   /\ x.has_rx_queues <=> (m.rxq.r >= 0 /\ m.rxq.v > 0)
                   /\ x.has_rx_queues => x.rx_queues = m.rxq.v
                   /\ x.has_tx_queues <=> (m.txq.r >= 0 /\ m.txq.v > 0)
                   /\ x.has_tx_queues => x.tx_queues = m.txq.v
    /\ (Answered /\ rc < 0) =>
         \E n \in 1..Len(reply) :
            Unreadable(reply[n].type) \/ MandatoryUnreadable(reply[n])

C5_Witness ==
    /\ Returned
    /\ rc = 2
    /\ \E n \in 1..2 :
         /\ reply[n].address = Ok(ETHER_ADDR_NULL)
         /\ \E k \in 1..2 :
              ret.links[k].ifindex = reply[n].ifindex.v /\ ~ret.links[k].has_mac_address
    /\ \E n \in 1..2 :
         /\ Unreadable(reply[n].address) /\ Unreadable(reply[n].txq)
         /\ reply[n].mtu = Ok(0) /\ reply[n].rxq = Ok(0)
         /\ \E k \in 1..2 :
              /\ ret.links[k].ifindex = reply[n].ifindex.v
              /\ ~ret.links[k].has_mtu /\ ~ret.links[k].has_rx_queues
              /\ ~ret.links[k].has_tx_queues

\* the messages of the reply that record x may have been decoded from
SourcesOf(x) ==
    { n \in 1..Len(reply) :
        IsLinkMsg(reply[n]) /\ RecordOf(x) = Described(reply[n]) }

(* C6: the MTU bounds reported for a record are values read from that
   record's own message: a bound is reported only if its attribute was
   read, and then with the value read (never an unset or left-over one). *)
C6_MtuBoundsFromMessage ==
    Returned =>
        \A k \in 1..Len(ret.links) :
            LET line == link_status_one_mtu(ret.links[k])
            IN  line.shown =>
                  \E n \in SourcesOf(ret.links[k]) :
                     /\ reply[n].min_mtu.r >= 0 /\ line.min_mtu = reply[n].min_mtu.v
                     /\ reply[n].max_mtu.r >= 0 /\ line.max_mtu = reply[n].max_mtu.v

SelectedMsgs ==
    { n \in 1..Len(reply) :
        IsLinkMsg(reply[n]) /\ (patterns.null \/ MatchesSome(reply[n], patterns.strv)) }

(* C7, as claimed: no two records of a result have the same ifindex,
   whatever the dump stream. *)
C7_AsClaimed ==
    Returned =>
        \A a, b \in 1..Len(ret.links) : a # b => ret.links[a].ifindex # ret.links[b].ifindex

(* C7, amended: the enumeration neither merges nor drops retained messages,
   so an ifindex occurs in the result as often as among the retained
   RTM_NEWLINK messages of the dump stream; when those carry pairwise
   distinct indices, no two records of the result share an ifindex and the
   result is strictly ascending. *)
C7_IndexAsOftenAsRetained ==
    Returned =>
        /\ \A n \in SelectedMsgs :
             Cardinality({ k \in 1..Len(ret.links) : ret.links[k].ifindex = reply[n].ifindex.v })
               = Cardinality({ k \in SelectedMsgs : reply[k].ifindex.v = reply[n].ifindex.v })
        /\ \A k \in 1..Len(ret.links) :
             \E n \in SelectedMsgs : reply[n].ifindex.v = ret.links[k].ifindex
        /\ (\A a, b \in SelectedMsgs : a # b => reply[a].ifindex.v # reply[b].ifindex.v)
             => \A k \in 1..(Len(ret.links) - 1) :
                   ret.links[k].ifindex < ret.links[k + 1].ifindex

C7_Witness ==
    /\ Returned
    /\ rc = 2
    /\ ret.links[1].ifindex < ret.links[2].ifindex
    /\ reply[1].ifindex.v = ret.links[2].ifindex
    /\ ~patterns.null

(* C8: two consecutive enumerations with the same patterns against the
   same link table return the same number of records with the same ifindex
   at every position; a call starts from nothing the call before left. *)
C8_Idempotent ==
    (pc = "done" /\ prev.set /\ prev.rc >= 0 /\ rc >= 0) =>
        /\ ret.set /\ prev.ret.set
        /\ rc = prev.rc
        /\ Len(ret.links) = Len(prev.ret.links)
        /\ \A k \in 1..Len(ret.links) :
             ret.links[k].ifindex = prev.ret.links[k].ifindex

C8_Witness ==
    /\ pc = "done" /\ prev.set /\ prev.rc = 2 /\ rc = 2
    /\ ret.links[1].ifindex # ret.links[2].ifindex
    /\ ret.links # prev.ret.links

(* ------------------------------------------------------------------ *)
(* What the gateway resolution is to deliver                           *)
(* ------------------------------------------------------------------ *)
\* the neighbor dump was answered and the scan has returned
Scanned == gw_pc = "done" /\ gw_m > 0

\* two addresses are the same address of the family
SameAddress(family, a, b) == IF family = AF_INET THEN a[1] = b[1] ELSE a = b

\* m is a neighbor entry of the requested family with the target address
FamilyAndAddressMatch(m) ==
    /\ m.family.r >= 0 /\ m.family.v = gw_family
    /\ m.dst.r >= 0 /\ SameAddress(gw_family, m.dst.v, gateway)

\* m is a neighbor entry whose family, interface and address match the target
MatchesTarget(m) ==
    /\ m.errno >= 0
    /\ m.type.r >= 0 /\ m.type.v = RTM_NEWNEIGH
    /\ FamilyAndAddressMatch(m)
    /\ m.ifindex.r >= 0 /\ (gw_ifindex > 0 => m.ifindex.v = gw_ifindex)

\* m matches, its hardware address is read and its vendor is found
Resolves(m) ==
    /\ MatchesTarget(m)
    /\ m.lladdr.r >= 0
    /\ ieee_oui(hwdb, m.lladdr.v).r >= 0

FirstEntry(P(_)) ==
    CHOOSE n \in 1..Len(gw_reply) : P(gw_reply[n]) /\ \A k \in 1..(n - 1) : ~P(gw_reply[k])

(* C9, as claimed: the scan stops at the first entry whose family, interface
   and address match the target, and that entry alone decides the outcome;
   no later entry is examined. *)
C9_AsClaimed ==
    (Scanned /\ \E n \in 1..Len(gw_reply) : MatchesTarget(gw_reply[n])) =>
        LET n == FirstEntry(MatchesTarget)
        IN  IF Resolves(gw_reply[n])
            THEN gw_rc = 0 /\ gateway_description.set
            ELSE gw_rc = 0 - ENODATA /\ ~gateway_description.set

(* C9, amended: the scan is linear in dump order and stops at the first
   entry whose family, interface and address match the target and whose
   hardware address is read and has a vendor description: that entry alone
   decides the outcome and no later entry is examined.  A matching entry
   without a readable hardware address or without a vendor description is
   passed over and the scan goes on to the entries after it; when no entry
   stops the scan, every entry has been examined and the result is
   -ENODATA. *)
C9_StopsAtFirstResolving ==
    /\ gw_pc = "scan" => \A k \in 1..(gw_m - 1) : ~Resolves(gw_reply[k])
    /\ Scanned =>
         IF \E n \in 1..Len(gw_reply) : Resolves(gw_reply[n])
         THEN /\ gw_m = FirstEntry(Resolves)
              /\ gw_rc = 0
              /\ gateway_description = [set |-> TRUE, v |-> ieee_oui(hwdb, gw_reply[gw_m].lladdr.v).v]
         ELSE /\ gw_m = Len(gw_reply) + 1
              /\ gw_rc = 0 - ENODATA
              /\ ~gateway_description.set

C9_Witness ==
    /\ Scanned
    /\ gw_rc = 0
    /\ gw_m = 1
    /\ Len(gw_reply) = 2
    /\ Resolves(gw_reply[1]) /\ Resolves(gw_reply[2])
    /\ gateway_description.v # ieee_oui(hwdb, gw_reply[2].lladdr.v).v

(* C10: the resolution succeeds only through an entry of the requested
   family whose destination address is the target address in that family,
   never through an entry of the other family whose raw address bytes
   coincide with the target; when no entry matches, the result is
   -ENODATA. *)
C10_NoCrossFamilyMatch ==
    Scanned =>
        /\ gw_rc = 0 =>
             /\ gw_m \in 1..Len(gw_reply)
             /\ FamilyAndAddressMatch(gw_reply[gw_m])
             /\ gateway_description.set
        /\ (\A n \in 1..Len(gw_reply) : ~FamilyAndAddressMatch(gw_reply[n])) =>
             (gw_rc = 0 - ENODATA /\ ~gateway_description.set)

C10_Witness ==
    /\ Scanned
    /\ gw_rc = 0 - ENODATA
    /\ gw_family = AF_INET
    /\ ~hwdb.null
    /\ \A n \in 1..Len(gw_reply) : ~FamilyAndAddressMatch(gw_reply[n])
    /\ \E n \in 1..Len(gw_reply) :
         /\ gw_reply[n].errno >= 0
         /\ gw_reply[n].type = Ok(RTM_NEWNEIGH)
         /\ gw_reply[n].family = Ok(AF_INET6)
         /\ gw_reply[n].dst = Ok(gateway)
         /\ gw_reply[n].lladdr.r >= 0
         /\ ieee_oui(hwdb, gw_reply[n].lladdr.v).r >= 0

\* the vendor database holds an entry for the hardware address
VendorKnown(mac) == \E e \in hwdb.db : fnmatch(e.key, OuiModalias(mac))

\* m matches the target and its hardware address is read, but the vendor
\* database, which is open, holds no entry for it
VendorMiss(m) ==
    /\ MatchesTarget(m)
    /\ m.lladdr.r >= 0
    /\ ~hwdb.null
    /\ ~IsNullOui(m.lladdr.v)
    /\ ~VendorKnown(m.lladdr.v)

\* no entry of the reply matches the target and has a vendor on record
NoVendorOnRecord ==
    \A n \in 1..Len(gw_reply) :
        (MatchesTarget(gw_reply[n]) /\ gw_reply[n].lladdr.r >= 0)
            => ~VendorKnown(gw_reply[n].lladdr.v)

(* C11, as claimed: when the first entry that matches the target has a
   hardware address the vendor database does not know, the resolution is
   not an error and differs from the outcome of finding no neighbor entry
   (-ENODATA); it only leaves the description absent. *)
C11_AsClaimed ==
    (Scanned /\ NoVendorOnRecord
        /\ \E n \in 1..Len(gw_reply) : VendorMiss(gw_reply[n])) =>
        (gw_rc >= 0 /\ gw_rc # 0 - ENODATA /\ ~gateway_description.set)

(* C11, amended: a matching entry whose hardware address is read but
   unknown to the vendor database is passed over; when no matching entry
   has a vendor on record, the resolution ends as it does when no neighbor
   entry is found at all: it returns -ENODATA after the whole reply was
   scanned and leaves the description absent. *)
C11_VendorMissIsNoData ==
    (Scanned /\ NoVendorOnRecord
        /\ \E n \in 1..Len(gw_reply) : VendorMiss(gw_reply[n])) =>
        /\ gw_rc = 0 - ENODATA
        /\ ~gateway_description.set
        /\ gw_m = Len(gw_reply) + 1

C11_Witness ==
    /\ Scanned
    /\ Len(gw_reply) = 2
    /\ VendorMiss(gw_reply[1])
    /\ ~MatchesTarget(gw_reply[2])
    /\ gw_rc = 0 - ENODATA
    /\ ~gateway_description.set

\* m cannot be decoded as a candidate: it carries an error code, its type
\* is unreadable or unexpected, its family is unreadable or another one, or
\* its interface, destination or hardware address is unreadable
Undecodable(m) ==
    \/ m.errno < 0
    \/ m.type.r < 0
    \/ m.type.v # RTM_NEWNEIGH
    \/ m.family.r < 0
    \/ m.family.v # gw_family
    \/ m.ifindex.r < 0
    \/ m.dst.r < 0
    \/ m.lladdr.r < 0

\* the neighbor dump itself failed: no reply was scanned
TransportFailed == gw_pc = "done" /\ gw_m = 0

(* C23: an entry of the neighbor dump that cannot be decoded (error code,
   unexpected or unreadable type, unreadable or different family,
   unreadable interface, destination or hardware address) is skipped and
   never ends the scan: the scan ends without a result only after the whole
   reply was examined, with -ENODATA, and an entry after undecodable ones
   that matches the target and has a vendor description still makes the
   resolution succeed, with that entry's description.  Only a failure of
   the dump itself ends the resolution before the reply is examined. *)
C23_DecodeErrorSkipped ==
    /\ Scanned =>
         /\ gw_rc < 0 => (gw_rc = 0 - ENODATA /\ gw_m = Len(gw_reply) + 1)
         /\ \A n \in 1..Len(gw_reply) :
              (Resolves(gw_reply[n]) /\ \A k \in 1..(n - 1) : Undecodable(gw_reply[k]))
                  => /\ gw_rc = 0
                     /\ gw_m = n
                     /\ gateway_description =
                            [set |-> TRUE, v |-> ieee_oui(hwdb, gw_reply[n].lladdr.v).v]
    /\ TransportFailed => (gw_rc < 0 /\ gw_reply = <<>> /\ ~gateway_description.set)

C23_Witness ==
    /\ Scanned
    /\ Len(gw_reply) = 2
    /\ Undecodable(gw_reply[1])
    /\ gw_reply[1].errno < 0
    /\ Resolves(gw_reply[2])
    /\ gw_rc = 0
    /\ gw_m = 2
    /\ gateway_description.set

\* m would resolve the target if its interface were not looked at
ResolvesOnAnyInterface(m) ==
    /\ m.errno >= 0
    /\ m.type.r >= 0 /\ m.type.v = RTM_NEWNEIGH
    /\ FamilyAndAddressMatch(m)
    /\ m.ifindex.r >= 0
    /\ m.lladdr.r >= 0
    /\ ~hwdb.null /\ ~IsNullOui(m.lladdr.v) /\ VendorKnown(m.lladdr.v)

(* C24: the scan is restricted to the requested interface.  Called with
   ifindex > 0, the resolution succeeds only through an entry of that
   interface, and ends with -ENODATA when the only entries with the
   target's family and address are of other interfaces; called with
   ifindex 0 the first entry with the target's family and address, a
   readable hardware address and a vendor description makes it succeed,
   whatever its interface. *)
C24_RestrictedToInterface ==
    Scanned =>
        /\ (gw_ifindex > 0 /\ gw_rc = 0) =>
              /\ gw_m \in 1..Len(gw_reply)
              /\ gw_reply[gw_m].ifindex = Ok(gw_ifindex)
        /\ (gw_ifindex > 0
              /\ \A n \in 1..Len(gw_reply) :
                    ResolvesOnAnyInterface(gw_reply[n]) => gw_reply[n].ifindex.v # gw_ifindex)
              => (gw_rc = 0 - ENODATA /\ ~gateway_description.set)
        /\ (gw_ifindex = 0 /\ \E n \in 1..Len(gw_reply) : ResolvesOnAnyInterface(gw_reply[n]))
              => /\ gw_rc = 0
                 /\ gw_m \in 1..Len(gw_reply)
                 /\ ResolvesOnAnyInterface(gw_reply[gw_m])
                 /\ \A k \in 1..(gw_m - 1) : ~ResolvesOnAnyInterface(gw_reply[k])

C24_Witness ==
    /\ Scanned
    /\ gw_ifindex = 3
    /\ gw_rc = 0 - ENODATA
    /\ \E n \in 1..Len(gw_reply) :
         /\ ResolvesOnAnyInterface(gw_reply[n])
         /\ gw_reply[n].ifindex.v = 4

(* ------------------------------------------------------------------ *)
(* What the vendor lookup is to deliver                                *)
(* ------------------------------------------------------------------ *)
\* the hardware address starts with 00:00:00
NullPrefix(mac) == SubSeq(mac, 1, 3) = <<0, 0, 0>>

\* the description the database holds for the hardware address
VendorOf(mac) == (CHOOSE e \in hwdb.db : fnmatch(e.key, OuiModalias(mac))).value

(* C12: for a hardware address that starts with 00:00:00, ieee_oui asks the
   vendor database nothing and yields no description; for every other
   hardware address it yields a description iff the database holds an
   entry for the address, and then the one the database holds; *ret is
   written only when ieee_oui returns 0. *)
C12_NullPrefixExcluded ==
    oui_pc = "done" =>
        /\ NullPrefix(oui_mac) =>
              (oui_queries = <<>> /\ oui_r < 0 /\ ~oui_ret.set)
        /\ ~NullPrefix(oui_mac) =>
              ((oui_r = 0 /\ oui_ret.set) <=> VendorKnown(oui_mac))
        /\ oui_ret.set <=> oui_r = 0
        /\ oui_ret.set => oui_ret.v = VendorOf(oui_mac)
        /\ \A k \in 1..Len(oui_queries) : oui_queries[k] = OuiModalias(oui_mac)

C12_Witness ==
    /\ oui_pc = "done"
    /\ NullPrefix(oui_mac)
    /\ VendorKnown(oui_mac)
    /\ oui_queries = <<>>
    /\ ~oui_ret.set

(* ------------------------------------------------------------------ *)
(* What dump_gateways is to deliver                                    *)
(* ------------------------------------------------------------------ *)
\* the resolution of gateway k (from 0) failed, as the log has it
ResolutionFailed(k) == \E n \in 1..Len(dg_log) : dg_log[n].i = k

\* the rows added so far are those of the first gateways of the list
RowsSoFar ==
    /\ Len(dg_table) <= Len(routes)
    /\ \A k \in 1..Len(dg_table) :
         /\ dg_table[k].gateway = in_addr_to_string(routes[k].family, routes[k].address)
         /\ ResolutionFailed(k - 1) <=> ~dg_table[k].description.set
    /\ \A n \in 1..Len(dg_log) : dg_log[n].r < 0

(* C13: for every list of gateways the route enumeration returns,
   dump_gateways adds one row per gateway, in the order of the list, and
   returns 0, whether or not the resolution of a gateway fails: once the
   list is there, the loop is left only with a row for every gateway and
   the return value 0; the row of a gateway whose resolution failed shows
   the address without a description, the row of a resolved gateway shows
   its description. *)
C13_OneRowPerGateway ==
    /\ [](dg_pc \in {"loop", "call"} => Len(dg_table) = dg_i)
    /\ []RowsSoFar
    /\ [][ (dg_pc \in {"loop", "call"}) =>
             (dg_pc' \in {"loop", "call"}
                \/ (dg_pc' = "done" /\ dg_r' = 0 /\ Len(dg_table') = Len(routes))) ]_vars

C13_Witness ==
    /\ dg_pc = "done"
    /\ dg_r = 0
    /\ Len(routes) = 2
    /\ Len(dg_table) = 2
    /\ \E n \in 1..Len(dg_log) : dg_log[n].i = 0 /\ dg_log[n].r = 0 - ENODATA
    /\ ~dg_table[1].description.set
    /\ dg_table[2].description.set

(* ------------------------------------------------------------------ *)
(* What reading a neighbor record store is to deliver                  *)
(* ------------------------------------------------------------------ *)
\* the store being read, and what is left of it
OpenStore == lldp_stores[lldp_links[lldp_i + 1]].bytes
Remaining == Len(OpenStore) - lldp_pos

\* the next step is a call of next_lldp_neighbor
ReadCall == lldp_pc = "read"

\* the length prefix at the read position: its 8 bytes, whether the value
\* they declare (little-endian) is below 4096, and that value if it is
PrefixBytes == SubSeq(OpenStore, lldp_pos + 1, lldp_pos + 8)
DeclaresBelow4096 ==
    /\ PrefixBytes[2] < 16
    /\ \A k \in 3..8 : PrefixBytes[k] = 0
Declared == PrefixBytes[1] + 256 * PrefixBytes[2]
Payload == SubSeq(OpenStore, lldp_pos + 9, lldp_pos + 8 + Declared)

(* C14: one call of next_lldp_neighbor returns 0 iff no byte is left;
   -EBADMSG if 1 to 7 bytes are left, if the prefix declares 4096 or more,
   or if fewer bytes follow the prefix than it declares; otherwise it
   returns 1 with the record decoded from the payload, or the error of the
   decoder.  A return other than 1 delivers no record, and after an error
   the caller leaves the loop over that store. *)
C14_OneCall ==
    [][ ReadCall =>
          /\ (nl_r' = 0) <=> (Remaining = 0)
          /\ Remaining \in 1..7 => nl_r' = 0 - EBADMSG
          /\ Remaining >= 8 =>
                IF ~DeclaresBelow4096 THEN nl_r' = 0 - EBADMSG
                ELSE IF Remaining - 8 < Declared THEN nl_r' = 0 - EBADMSG
                ELSE IF sd_lldp_neighbor_from_raw(Payload).r >= 0
                     THEN nl_r' = 1 /\ nl_n' = [set |-> TRUE, raw |-> Payload]
                     ELSE nl_r' = sd_lldp_neighbor_from_raw(Payload).r
          /\ nl_r' # 1 => ~nl_n'.set
          /\ nl_r' < 0 => (lldp_pc' = "links" /\ lldp_i' = lldp_i + 1) ]_vars

C14_Witness ==
    /\ lldp_pc = "done"
    /\ lldp_stores[1].bytes = StoreRecord(FrameA) \o <<1, 0, 0>>
    /\ lldp_c = 1
    /\ nl_r = 0 - EBADMSG
    /\ ~nl_n.set

(* C15: the length bound is exact over the whole 64-bit range of the
   prefix: a prefix that declares 4096 or more, also one that does not fit
   in 32 bits, is rejected as malformed and no payload byte is read; a
   prefix that declares N <= 4095 passes, N payload bytes are asked for,
   and a record that comes out holds exactly N bytes. *)
C15_LengthBoundExact ==
    [][ (ReadCall /\ Remaining >= 8) =>
          IF DeclaresBelow4096
          THEN /\ lldp_pos' = lldp_pos + 8 + Min(Declared, Remaining - 8)
               /\ Remaining - 8 >= Declared =>
                     nl_r' \in {1, sd_lldp_neighbor_from_raw(Payload).r}
               /\ nl_r' = 1 => Len(nl_n'.raw) = Declared
          ELSE /\ nl_r' = 0 - EBADMSG
               /\ lldp_pos' = lldp_pos + 8 ]_vars

C15_Witness ==
    /\ lldp_pc = "done"
    /\ lldp_stores[1].bytes = StoreRecord(FrameMax) \o StoreRecord(FrameOver)
    /\ lldp_c = 1
    /\ nl_r = 0 - EBADMSG
    /\ lldp_pos = 8 + (LLDP_RAW_MAX - 1) + 8

\* frames the writer may store: decodable, shorter than 4096 bytes
GoodFrames == {FrameA, FrameB, FrameMax}

\* the store file the writer makes of a list of frames
Written(fs) == Concat([k \in 1..Len(fs) |-> StoreRecord(fs[k])])

\* the frames of the records printed for link k (from 1), in their order
Printed(k) ==
    LET rows == SelectSeq(lldp_out, LAMBDA row : row.i = k - 1)
    IN  [j \in 1..Len(rows) |-> rows[j].n]

(* C16: when the store is N well-formed frames written one after the
   other, the calls of next_lldp_neighbor deliver exactly N records, the
   k-th decoded from the k-th frame, and the call after them returns the
   clean end of the stream. *)
C16_RoundTrip ==
    lldp_pc = "done" =>
        \A fs \in SeqsUpTo(GoodFrames, MaxFrames) :
            lldp_stores[1].bytes = Written(fs) =>
                /\ Printed(1) = fs
                /\ lldp_c = Len(fs)
                /\ nl_r = 0
                /\ lldp_log = <<>>
                /\ lldp_cmd = "status" => lldp_results = <<Len(fs)>>

C16_Witness ==
    /\ lldp_pc = "done"
    /\ lldp_stores[1].bytes = Written(<<FrameB, FrameA>>)
    /\ Printed(1) = <<FrameB, FrameA>>
    /\ nl_r = 0

(* C17: a call of next_lldp_neighbor that returns a record moves the read
   position on by at least 8 bytes, and the loop over a store comes to its
   end: the command returns. *)
C17_ReadingTerminates ==
    /\ [][ (ReadCall /\ nl_r' = 1) => lldp_pos' >= lldp_pos + 8 ]_vars
    /\ <>(lldp_pc = "done")

C17_Witness ==
    /\ lldp_pc = "done"
    /\ lldp_c = 2
    /\ lldp_pos = Len(lldp_stores[1].bytes)
    /\ nl_r = 0

(* ------------------------------------------------------------------ *)
(* What the commands make of the stores of several links               *)
(* ------------------------------------------------------------------ *)
\* the store of link k (from 1)
StoreOf(k) == lldp_stores[lldp_links[k]]

Missing(st) == st.errno = ENOENT

\* the store opens and holds whole records of decodable frames only
WellFormed(st) ==
    /\ st.errno = 0
    /\ \E fs \in SeqsUpTo(GoodFrames, MaxFrames) : st.bytes = Written(fs)

\* the store opens, but its content is not a sequence of whole records
Malformed(st) == st.errno = 0 /\ ~WellFormed(st)

\* a warning was logged for link k (from 1)
Warned(k) == \E n \in 1..Len(lldp_log) : lldp_log[n].i = k - 1

(* C18: a missing store is 'no data', not a failure: for a link without a
   store dump_lldp_neighbors returns 0 and link_lldp_status logs no
   warning and goes on; for a link with a malformed store
   dump_lldp_neighbors returns an error and link_lldp_status logs a
   warning.  Neither command fails because of a missing store. *)
C18_MissingIsNoData ==
    /\ \A k \in 1..lldp_i :
         /\ Missing(StoreOf(k)) =>
               /\ lldp_cmd = "lldp" => ~Warned(k)
               /\ lldp_cmd = "status" => lldp_results[k] = 0
               /\ Printed(k) = <<>>
         /\ Malformed(StoreOf(k)) =>
               /\ lldp_cmd = "lldp" => Warned(k)
               /\ lldp_cmd = "status" => lldp_results[k] < 0
    /\ lldp_pc = "done" => (lldp_r = 0 /\ lldp_i = Len(lldp_links))

C18_Witness ==
    /\ lldp_pc = "done"
    /\ lldp_cmd = "status"
    /\ Len(lldp_links) = 2
    /\ Missing(StoreOf(1))
    /\ Malformed(StoreOf(2))
    /\ lldp_results[1] = 0
    /\ lldp_results[2] = 0 - EBADMSG

(* C19: a malformed store is fatal for that store only: both commands go
   through every link of the list, and for every link whose store is
   well-formed exactly the records of that store are reported, in their
   order, whatever the stores of the other links hold. *)
C19_MalformedIsLocal ==
    lldp_pc = "done" =>
        /\ lldp_i = Len(lldp_links)
        /\ lldp_r = 0
        /\ \A k \in 1..Len(lldp_links) :
             \A fs \in SeqsUpTo(GoodFrames, MaxFrames) :
                 (StoreOf(k).errno = 0 /\ StoreOf(k).bytes = Written(fs)) =>
                     /\ Printed(k) = fs
                     /\ ~Warned(k)
                     /\ lldp_cmd = "status" => lldp_results[k] = Len(fs)
        /\ \A n \in 1..(Len(lldp_out) - 1) : lldp_out[n].i <= lldp_out[n + 1].i

C19_Witness ==
    /\ lldp_pc = "done"
    /\ lldp_cmd = "lldp"
    /\ lldp_links = <<1, 2>>
    /\ lldp_stores[1].bytes = StoreRecord(FrameA) \o <<1, 0, 0>>
    /\ lldp_stores[2].bytes = Written(<<FrameB, FrameA>>)
    /\ Warned(1)
    /\ Printed(2) = <<FrameB, FrameA>>

(* ------------------------------------------------------------------ *)
(* What the address label enumeration is to deliver                    *)
(* ------------------------------------------------------------------ *)
\* the entry carries no error, its label is read or absent, its prefix
\* and its prefix length are read
Qualifies(m) ==
    /\ m.errno >= 0
    /\ (m.label.r >= 0 \/ m.label.r = 0 - ENODATA)
    /\ m.address.r >= 0
    /\ m.prefixlen.r >= 0

\* the qualifying entries among the first n of the reply, in dump order
QualifyingUpTo(n) == SelectSeq(SubSeq(al_reply, 1, n), Qualifies)

(* C20: an entry of the address label dump is emitted iff it carries no
   error code, its label is read or reported absent, and its prefix and
   prefix length are read; every other entry is skipped, and the loop goes
   on after it: the rows are those of the qualifying entries, one each, in
   dump order, and the printed table holds the same rows. *)
C20_EmittedIffQualifies ==
    /\ al_pc \in {"loop", "done"} /\ al_m > 0 =>
         LET q == QualifyingUpTo(al_m - 1)
         IN  /\ Len(al_table) = Len(q)
             /\ \A k \in 1..Len(q) :
                  /\ al_table[k].prefix = in_addr_to_string(AF_INET6, q[k].address.v)
                  /\ al_table[k].prefixlen = q[k].prefixlen.v
                  /\ q[k].label.r >= 0 => al_table[k].label = q[k].label.v
    /\ al_pc = "done" /\ al_m > 0 =>
         /\ al_m = Len(al_reply) + 1
         /\ al_r = 0
         /\ al_out.set
         /\ Len(al_out.rows) = Len(al_table)
         /\ \A k \in 1..Len(al_table) : Count(al_out.rows, al_table[k]) = Count(al_table, al_table[k])

C20_Witness ==
    /\ al_pc = "done"
    /\ Len(al_reply) = 2
    /\ al_reply[1].label.r = 0 - EINVAL
    /\ al_reply[2].label.r = 0 - ENODATA
    /\ Len(al_out.rows) = 1
    /\ al_out.rows[1].prefixlen = al_reply[2].prefixlen.v

\* the requests of the kind req that were sent
Requests(req) == { k \in 1..Len(rtnl) : rtnl[k].ev = "request" /\ rtnl[k].req = req }

\* the gateways dump_gateways has taken up so far
TakenUp == IF dg_pc = "call" THEN dg_i + 1 ELSE dg_i

(* C22: dump requests never overlap.  Whenever the program is not inside a
   call of the transport no request is outstanding: every request sent is
   directly followed by its own reply, so no request is sent before the
   reply to the one before it was received.  The route dump of
   dump_gateways is the first request and is answered before any neighbor
   dump is sent, and there is at most one neighbor dump per gateway taken
   up, each answered before the next gateway is taken up. *)
C22_NoOverlap ==
    /\ \A k \in 1..Len(rtnl) :
         /\ rtnl[k].ev = "request" =>
               /\ k < Len(rtnl)
               /\ rtnl[k + 1].ev = "reply"
               /\ rtnl[k + 1].req = rtnl[k].req
               /\ rtnl[k + 1].index = rtnl[k].index
         /\ rtnl[k].ev = "reply" => (k > 1 /\ rtnl[k - 1].ev = "request")
    /\ Requests("neighbor") # {} =>
         /\ Len(rtnl) >= 2
         /\ rtnl[1] = Request("route", dg_ifindex)
         /\ rtnl[2] = Reply("route", dg_ifindex, 0)
    /\ Cardinality(Requests("route")) <= 1
    /\ Cardinality(Requests("neighbor")) <= TakenUp

C22_Witness ==
    /\ dg_pc = "done"
    /\ Len(local) = 2
    /\ Len(dg_table) = 2
    /\ Len(rtnl) = 6
    /\ rtnl[3] = Request("neighbor", local[1].ifindex)
    /\ rtnl[5] = Request("neighbor", local[2].ifindex)
    /\ rtnl[6].r < 0

\* the transport could not be opened, or a request on it was not answered
TransportFailure(k) == rtnl[k].ev \in {"open", "reply"} /\ rtnl[k].r < 0

(* C21: a transport failure is fatal to the command and is returned to its
   caller: when the list, status, lldp or label command has ended and the
   transport could not be opened or a dump request of the command was not
   answered, the command has returned a negative error; when every dump
   was answered and the link dump had no entries, it has returned 0. *)
C21_TransportFailureFatal ==
    (verb \in {"list", "status", "lldp", "label"} /\ cmd_pc = "done") =>
        /\ (\E k \in 1..Len(rtnl) : TransportFailure(k)) => cmd_r < 0
        /\ ((\A k \in 1..Len(rtnl) : ~TransportFailure(k)) /\ cmd_c = 0) => cmd_r = 0

\* the indexes the arguments resolve to
Resolved == { argv[k].v : k \in { n \in 1..Len(argv) : argv[n].r >= 0 } }

\* the indexes a delete request was sent for
Deleted == { rtnl[k].index : k \in Requests("dellink") }

(* C25: in link_delete every argument is resolved before any delete
   request is sent: a request is only ever sent when every argument has
   resolved, so if one fails to resolve none is sent and the command
   returns an error; no index is sent twice; a request that fails is the
   last one sent and its error is what the command returns; and when every
   argument resolves and no request fails, one request was sent for each
   distinct index and the command returns 0. *)
C25_ResolveAllThenDelete ==
    verb = "delete" =>
        /\ Requests("dellink") # {} =>
              /\ \A n \in 1..Len(argv) : argv[n].r >= 0
              /\ cmd_i = Len(argv)
              /\ Deleted \subseteq Resolved
        /\ Cardinality(Requests("dellink")) = Cardinality(Deleted)
        /\ \A k \in 1..Len(rtnl) :
              (rtnl[k].req = "dellink" /\ TransportFailure(k)) =>
                  /\ k = Len(rtnl)
                  /\ cmd_pc = "done"
                  /\ cmd_r = rtnl[k].r
        /\ (cmd_pc = "done" /\ \E n \in 1..Len(argv) : argv[n].r < 0) =>
              (Deleted = {} /\ cmd_r < 0)
        /\ (cmd_pc = "done" /\ \A k \in 1..Len(rtnl) : ~TransportFailure(k)) =>
              IF \A n \in 1..Len(argv) : argv[n].r >= 0
              THEN Deleted = Resolved /\ cmd_r = 0
              ELSE Deleted = {}

C25_Witness ==
    /\ verb = "delete"
    /\ cmd_pc = "done"
    /\ Len(argv) = 2
    /\ Cardinality(Resolved) = 2
    /\ Cardinality(Deleted) = 1
    /\ TransportFailure(Len(rtnl))
    /\ cmd_r < 0

(* C26: every row dump_address_labels emits carries the label read from
   the message of its own entry: the label attribute of that message was
   read and the row shows its value, never an unset value nor the label
   left over from an entry processed before. *)
C26_LabelFromOwnMessage ==
    al_pc \in {"loop", "done"} /\ al_m > 0 =>
        LET q == QualifyingUpTo(al_m - 1)
        IN  \A k \in 1..Len(al_table) :
               k <= Len(q) =>
                  /\ q[k].label.r >= 0
                  /\ al_table[k].label = q[k].label.v

====
